---- MODULE Spec2Model ----
(***************************************************************************)
(* Model of the lock-free radix tree of src/metadata/radixtree/            *)
(* radix_tree.cc: nodes in a shared heap, put / get / destroy as the       *)
(* per-thread step machines the code executes, one atomic step per access  *)
(* to a shared slot (atomic read, cas64, casTagGptr).                      *)
(*                                                                         *)
(* Heap: heap->Alloc hands out a block without clearing it and heap->Free  *)
(* takes it back without clearing it.  A block that was never handed out   *)
(* is zero filled (the leaf initialisation of put writes no child slot, so *)
(* the code presupposes it); a block that went through Free keeps the      *)
(* bytes its last holder left in it.                                       *)
(***************************************************************************)
EXTENDS Integers, Sequences, FiniteSets, TLC

\* ------------------------------------------------------------- bounds
\* Key bytes are 1..MaxByte; child slots are indexed 0..MaxByte (child[256]).
MaxByte == 2
\* Size of Node::key.
MAX_KEY_LEN == 3
\* Calls one thread issues in a concurrent run.
MaxOps == 2
\* Calls issued in a sequential run.
MaxSeqOps == 3

Threads == {1, 2}
SeqThread == CHOOSE t \in Threads : \A u \in Threads : t <= u
Bytes == 0 .. MaxByte
KeyBytes == 1 .. MaxByte
Values == {1, 2}

\* The keys the callers use ("A" = 1, "B" = 2).
Keys == { <<1>>, <<1, 1>>, <<1, 2>>, <<1, 1, 2>> }
\* The keys of the concurrent runs.
ConcKeys == { <<1>>, <<1, 1>>, <<1, 2>> }

\* Heap capacity: enough for every call to allocate its two nodes.
NumBlocks == 1 + 2 * (MaxSeqOps + Cardinality(Threads) * MaxOps)
Blocks == 1 .. NumBlocks
Root == 1

Min(a, b) == IF a < b THEN a ELSE b

\* ------------------------------------------------------------- TagGptr
TagGptr(g, t) == [gptr |-> g, tag |-> t]
Invalid == TagGptr(0, 0)
IsValid(tg) == tg.gptr # 0

\* ------------------------------------------------------------- Node
ZeroNode == [key |-> [j \in 1 .. MAX_KEY_LEN |-> 0], prefix_size |-> 0,
             child |-> [b \in Bytes |-> 0], value |-> Invalid]

\* memcpy(node->key, key, key_size)
Memcpy(nkey, key) == [j \in 1 .. MAX_KEY_LEN |->
                        IF j <= Len(key) THEN key[j] ELSE nkey[j]]

\* pmem: the build (TRUE when compiled with PMEM defined).  stored: for the
\* PMEM build, every tagged value each block's value slot has held.
VARIABLES mem, heap, lc, nops, everPut, expect, pmem, stored

\* iter: the caller's RadixTree::Iter.  scanret: what the caller's last scan
\* or get_next did.  yielded: the (key, value) pairs returned since the last
\* call of scan.
VARIABLES iter, scanret, yielded

scanVars == <<iter, scanret, yielded>>

\* The data path of Fam_Ops_NVMM.  famDesc: the Fam_Descriptor of the data
\* item (base address, size, key).  famMem: the bytes of the address space.
\* famRet: what the last put_blocking or get_blocking did.  famCopied: the
\* addresses of the address space its memcpy copied to or from.  famOps: the
\* number of calls made.
VARIABLES famDesc, famMem, famRet, famCopied, famOps

dataVars == <<famDesc, famMem, famRet, famCopied, famOps>>
vars ==
    <<mem, heap, lc, nops, everPut, expect, pmem, stored, scanVars, dataVars>>

\* uint64_t, reduced to 4 bits: sums of offsets, sizes and addresses wrap
\* modulo Word64.
Word64 == 16
Addresses == 0 .. Word64 - 1

\* No data item is in use and no data-path call has been made.
InitNoData ==
    /\ famDesc = [base |-> 0, size |-> 0, key |-> 0]
    /\ famMem = [a \in Addresses |-> 0]
    /\ famRet = "none"
    /\ famCopied = {}
    /\ famOps = 0

NullSlot == <<0, 0>>

Idle == [pc |-> "idle", op |-> "none", key |-> <<>>, value |-> 0,
         update |-> FALSE, p |-> NullSlot, q |-> 0,
         new_leaf_ptr |-> 0, intermediate_node_ptr |-> 0,
         prefix_size |-> 0, existing |-> 0, tq |-> Invalid,
         ret |-> Invalid, g0 |-> {}, prev |-> <<>>, persisted |-> {},
         cc |-> FALSE, old_value |-> Invalid, first |-> 0, second |-> Invalid,
         key_ptr |-> 0, nomem |-> FALSE]

\* An Iter the caller has constructed and not used yet.
NewIter == [node |-> 0, next_pos |-> 0, path |-> <<>>, key |-> <<>>,
            value |-> Invalid,
            begin_key |-> <<>>, begin_key_inclusive |-> FALSE,
            begin_key_open |-> FALSE,
            end_key |-> <<>>, end_key_inclusive |-> FALSE,
            end_key_open |-> FALSE]

\* A thread can issue a call: it has none running (its last one, if any, has
\* returned and its result is still in lc[t].ret).
Ready(t) == lc[t].pc \in {"idle", "done"}

\* RadixTree::RadixTree with root == 0: a fresh root, prefix_size 0, all
\* children null, value invalid.
TreeState ==
    /\ mem = [b \in Blocks |-> ZeroNode]
    /\ heap = [b \in Blocks |-> IF b = Root THEN "used" ELSE "fresh"]
    /\ lc = [t \in Threads |-> Idle]
    /\ nops = [t \in Threads |-> 0]
    /\ everPut = {}
    /\ expect = [k \in Keys |-> 0 - 1]
    /\ stored = [b \in Blocks |-> {Invalid}]
    /\ iter = NewIter
    /\ scanret = "none"
    /\ yielded = <<>>

\* The tree after construction; the data path is not in use.
InitTree == TreeState /\ InitNoData

\* The default build: loadTagGptr, fam_atomic_u64_read.
Init == InitTree /\ pmem = FALSE

\* The build with PMEM defined: "tq = *tp", "q = *p".
InitPmem == InitTree /\ pmem = TRUE

\* The build does not change; the record of stored values follows the heap.
Tracked ==
    /\ pmem' = pmem
    /\ stored' = IF pmem
                 THEN [b \in Blocks |-> stored[b] \cup {mem'[b].value}]
                 ELSE stored

\* ------------------------------------------------------------- helpers
\* key[i] as get and destroy read it (i counted from 0).  The caller's buffer
\* holds key_size bytes; a read at i >= key_size returns whatever byte follows
\* them, here oob.
KeyAt(key, i, oob) == IF i < Len(key) THEN key[i + 1] ELSE oob

\* The loop of put: the first i < max_i with key[i] != n->key[i], else max_i.
PrefixMismatch(key, n, max_i) ==
    CHOOSE i \in 0 .. max_i :
        /\ (i = max_i \/ key[i + 1] # n.key[i + 1])
        /\ \A j \in 0 .. (i - 1) : key[j + 1] = n.key[j + 1]

\* fam_memcmp(key, n->key, min(n->prefix_size, key_size)) == 0
MemcmpEq(key, n) ==
    \A j \in 1 .. Min(n.prefix_size, Len(key)) : key[j] = n.key[j]

\* Faulty variant: the new leaf starts at tag 1.
NewLeaf_TagOne(blk, key, value) ==
    [blk EXCEPT !.key = Memcpy(blk.key, key),
                !.prefix_size = Len(key),
                !.value = TagGptr(value, 1)]

\* The leaf put fills in: key, prefix_size and value; no child slot is written.
NewLeaf(blk, key, value) ==
    [blk EXCEPT !.key = Memcpy(blk.key, key),
                !.prefix_size = Len(key),
                !.value = TagGptr(value, 0)]

\* The intermediate node right after its allocation: key copied, children
\* zeroed; prefix_size and value are not written here.
NewIntermediate(blk, key) ==
    [blk EXCEPT !.key = Memcpy(blk.key, key),
                !.child = [b \in Bytes |-> 0]]

\* Faulty variant: the CAS bumps the tag and keeps the old pointer.
UpdatedValue_KeepsGptr(value, tq) == TagGptr(tq.gptr, tq.tag + 1)

\* Faulty variant: the CAS stores the new pointer under the old tag.
UpdatedValue_SameTag(value, tq) == TagGptr(value, tq.tag)

\* The value an updating put installs over tq.
UpdatedValue(value, tq) == TagGptr(value, tq.tag + 1)

\* Faulty variant: destroy bumps the tag and leaves the pointer in place.
DestroyedValue_KeepsGptr(tq) == TagGptr(tq.gptr, tq.tag + 1)

\* Faulty variant: destroy clears the pointer under the old tag.
DestroyedValue_SameTag(tq) == TagGptr(0, tq.tag)

\* The value destroy installs over tq.
DestroyedValue(tq) == TagGptr(0, tq.tag + 1)

\* Faulty variant: put with update == false never returns early.
KeepsExisting_Never(tq) == FALSE

\* put with update == false returns the value it finds when that is valid.
KeepsExisting(tq) == IsValid(tq)

\* Faulty variant: the node is not flushed.
Persist_Skipped(P, ptr) == P \ {ptr}

\* fam_persist(node, sizeof(Node)) by a thread whose flushed nodes are P.
Persist(P, ptr) == P \cup {ptr}

\* A plain store by that thread into a field of the node ptr.
Store(P, ptr) == P \ {ptr}

\* The constructor: the stores into the fresh root, then its fam_persist.
ConstructorPersisted == Persist(Store({}, Root), Root)

\* heap->Alloc: the lowest block never handed out, or any block given back.
AllocChoices(h) ==
    LET fresh == {b \in Blocks : h[b] = "fresh"}
    IN {b \in Blocks : h[b] = "free"} \cup
       (IF fresh = {} THEN {} ELSE {CHOOSE b \in fresh : \A c \in fresh : b <= c})

\* heap->Free(ptr) for a non-null ptr; the block's bytes stay as they are.
Free(h, ptr) == IF ptr = 0 THEN h ELSE [h EXCEPT ![ptr] = "free"]

\* cas64 on the child slot p: the value seen before the attempt.
SlotValue(m, p) == m[p[1]].child[p[2]]

\* ------------------------------------------------------------- value loads
\* putC, getC and destroyC are the code of put with update set, get and destroy
\* with other return statements; l.cc says that the call is one of them.  They
\* return the pair (first, second) and assign old to the caller's old_value.
ReturnC(l, first, second, old) ==
    IF l.cc
    THEN [l EXCEPT !.first = first, !.second = second, !.old_value = old]
    ELSE l

\* get and destroy have reached the node of their key.
AtKeyNode(l, n) == MemcmpEq(l.key, n) /\ n.prefix_size = Len(l.key)

\* What a call does with the tagged value tq it has loaded from its node.
AfterLoad(l, tq) ==
    IF l.op = "get"
    THEN ReturnC([l EXCEPT !.pc = "done", !.ret = tq, !.tq = Invalid],
                 l.q, tq, l.old_value)
    ELSE IF l.op = "destroy" \/ l.update
    THEN [l EXCEPT !.tq = tq, !.pc = "cas_value"]
    ELSE IF KeepsExisting(tq)
    THEN [l EXCEPT !.tq = tq, !.ret = tq, !.pc = "done"]
    ELSE [l EXCEPT !.tq = tq, !.pc = "cas_invalid"]

\* "tq = *tp" of the PMEM build: a plain copy of the 16 bytes, racing with the
\* casTagGptr of writers.  The copy reads one half now (kept in l.tq) and the
\* other half in a later step: pc "load_tag" when the tag is still to be
\* read, "load_gptr" when the gptr is.
TornStart(l, n) ==
    {[l EXCEPT !.tq = n.value, !.pc = h] : h \in {"load_tag", "load_gptr"}}

\* The load of n->value: loadTagGptr in the default build, the plain copy in
\* the PMEM build.
LoadValue(l, n) == IF pmem THEN TornStart(l, n) ELSE {AfterLoad(l, n.value)}

\* The second half of the plain copy.
PmemLoad(t) ==
    /\ lc[t].pc \in {"load_tag", "load_gptr"}
    /\ LET l == lc[t]
           now == mem[l.q].value
           tq == IF l.pc = "load_tag"
                 THEN TagGptr(l.tq.gptr, now.tag)
                 ELSE TagGptr(now.gptr, l.tq.tag)
       IN lc' = [lc EXCEPT ![t] = AfterLoad(l, tq)]
    /\ UNCHANGED <<mem, heap, nops, everPut, expect>>
    /\ Tracked
    /\ UNCHANGED <<scanVars, dataVars>>

\* ------------------------------------------------------------- get
\* One iteration of the while loop of RadixTree::get at node l.q.
GetStep(m, l, oob) ==
    LET n == m[l.q]
        key_size == Len(l.key)
    IN IF ~MemcmpEq(l.key, n)
       THEN ReturnC([l EXCEPT !.pc = "done", !.ret = Invalid],
                    0, Invalid, l.old_value)
       ELSE IF n.prefix_size = key_size
       THEN ReturnC([l EXCEPT !.pc = "done", !.ret = n.value],
                    l.q, n.value, l.old_value)
       ELSE LET b == KeyAt(l.key, n.prefix_size, oob)
                nq == n.child[b]
            IN IF nq = 0
               THEN ReturnC([l EXCEPT !.p = <<l.q, b>>, !.q = 0,
                                      !.pc = "done", !.ret = Invalid],
                            0, Invalid, l.old_value)
               ELSE [l EXCEPT !.p = <<l.q, b>>, !.q = nq]

GetStart(k) ==
    [Idle EXCEPT !.pc = "descend", !.op = "get", !.key = k, !.q = Root]

\* Bookkeeping for the properties, not program state: when the call that just
\* returned in l was a destroy of a valid value (or a get that followed one),
\* the key and the tag that destroy saw.
DestroyedBefore(l) ==
    IF l.pc = "done" /\ l.op = "destroy" /\ IsValid(l.ret)
    THEN <<l.key, l.ret.tag>>
    ELSE IF l.pc = "done" /\ l.op = "get" THEN l.prev ELSE <<>>

\* A descent that never ends (a cycle of child pointers) is reported as Looping.
Looping == TagGptr(0 - 1, 0 - 1)

RECURSIVE GetRun(_, _, _, _)
GetRun(m, l, oob, fuel) ==
    IF l.pc = "done" THEN l.ret
    ELSE IF fuel = 0 THEN Looping
    ELSE GetRun(m, GetStep(m, l, oob), oob, fuel - 1)

\* get(k) run to completion on the tree m, every out-of-bounds read giving oob.
Get(m, k, oob) == GetRun(m, GetStart(k), oob, NumBlocks + 1)

\* Every result get(k) can return on the tree m.
GetSet(m, k) == {Get(m, k, b) : b \in Bytes}

CallGet(t, K, B) ==
    /\ Ready(t)
    /\ nops[t] < B
    /\ \E k \in K :
          lc' = [lc EXCEPT ![t] =
                    [GetStart(k) EXCEPT !.prev = DestroyedBefore(lc[t])]]
    /\ nops' = [nops EXCEPT ![t] = @ + 1]
    /\ UNCHANGED <<mem, heap, everPut>>
    /\ Tracked
    /\ UNCHANGED <<scanVars, dataVars>>

GetDescend(t) ==
    /\ lc[t].pc = "descend"
    /\ lc[t].op = "get"
    /\ IF pmem /\ AtKeyNode(lc[t], mem[lc[t].q])
       THEN \E l2 \in LoadValue(lc[t], mem[lc[t].q]) :
               lc' = [lc EXCEPT ![t] = l2]
       ELSE \E oob \in Bytes :
               lc' = [lc EXCEPT ![t] = GetStep(mem, lc[t], oob)]
    /\ UNCHANGED <<mem, heap, nops, everPut, expect>>
    /\ Tracked
    /\ UNCHANGED <<scanVars, dataVars>>

\* ------------------------------------------------------------- destroy
CallDestroy(t, K, B) ==
    /\ Ready(t)
    /\ nops[t] < B
    /\ \E k \in K :
          lc' = [lc EXCEPT ![t] =
                    [Idle EXCEPT !.pc = "descend", !.op = "destroy", !.key = k,
                                 !.q = Root, !.g0 = GetSet(mem, k)]]
    /\ nops' = [nops EXCEPT ![t] = @ + 1]
    /\ UNCHANGED <<mem, heap, everPut>>
    /\ Tracked
    /\ UNCHANGED <<scanVars, dataVars>>

\* One iteration of the while loop of RadixTree::destroy, up to the load of
\* the value slot.
DestroyStep(m, l, oob) ==
    LET n == m[l.q]
        key_size == Len(l.key)
    IN IF ~MemcmpEq(l.key, n)
       THEN ReturnC([l EXCEPT !.pc = "done", !.ret = Invalid],
                    0, Invalid, l.old_value)
       ELSE IF n.prefix_size = key_size
       THEN [l EXCEPT !.pc = "cas_value", !.tq = n.value]
       ELSE LET b == KeyAt(l.key, n.prefix_size, oob)
                nq == n.child[b]
            IN IF nq = 0
               THEN ReturnC([l EXCEPT !.p = <<l.q, b>>, !.q = 0,
                                      !.pc = "done", !.ret = Invalid],
                            0, Invalid, l.old_value)
               ELSE [l EXCEPT !.p = <<l.q, b>>, !.q = nq]

DestroyDescend(t) ==
    /\ lc[t].pc = "descend"
    /\ lc[t].op = "destroy"
    /\ IF pmem /\ AtKeyNode(lc[t], mem[lc[t].q])
       THEN \E l2 \in LoadValue(lc[t], mem[lc[t].q]) :
               lc' = [lc EXCEPT ![t] = l2]
       ELSE \E oob \in Bytes :
               lc' = [lc EXCEPT ![t] = DestroyStep(mem, lc[t], oob)]
    /\ UNCHANGED <<mem, heap, nops, everPut, expect>>
    /\ Tracked
    /\ UNCHANGED <<scanVars, dataVars>>

\* One attempt of the casTagGptr loop of destroy.
DestroyCas(t) ==
    /\ lc[t].pc = "cas_value"
    /\ lc[t].op = "destroy"
    /\ LET l == lc[t]
           seen_tq == mem[l.q].value
       IN IF seen_tq = l.tq
          THEN /\ mem' = [mem EXCEPT ![l.q].value = DestroyedValue(l.tq)]
               /\ lc' = [lc EXCEPT ![t] =
                           ReturnC([l EXCEPT !.pc = "done", !.ret = l.tq],
                                   l.q, DestroyedValue(l.tq), l.tq)]
          ELSE /\ mem' = mem
               /\ lc' = [lc EXCEPT ![t] = [l EXCEPT !.tq = seen_tq]]
    /\ UNCHANGED <<heap, nops, everPut, expect>>
    /\ Tracked
    /\ UNCHANGED <<scanVars, dataVars>>

\* ------------------------------------------------------------- put
CallPut(t, K, U, B) ==
    /\ Ready(t)
    /\ nops[t] < B
    /\ \E k \in K, v \in Values, u \in U :
          /\ lc' = [lc EXCEPT ![t] =
                      [Idle EXCEPT !.pc = "descend", !.op = "put", !.key = k,
                                   !.value = v, !.update = u, !.q = Root,
                                   !.g0 = GetSet(mem, k),
                                   !.prev = DestroyedBefore(lc[t])]]
          /\ everPut' = everPut \cup {k}
    /\ nops' = [nops EXCEPT ![t] = @ + 1]
    /\ UNCHANGED <<mem, heap>>
    /\ Tracked
    /\ UNCHANGED <<scanVars, dataVars>>

\* One iteration of "while (q != 0)" of RadixTree::put at node l.q.
PutDescend(t) ==
    /\ lc[t].pc = "descend"
    /\ lc[t].op = "put"
    /\ LET l == lc[t]
           n == mem[l.q]
           key_size == Len(l.key)
           max_i == Min(key_size, n.prefix_size)
           i == PrefixMismatch(l.key, n, max_i)
       IN IF i < n.prefix_size
          THEN \* a split is needed; leave the loop with q != 0
               /\ lc' = [lc EXCEPT ![t] =
                           [l EXCEPT !.prefix_size = i,
                                     !.existing = n.key[i + 1],
                                     !.pc = "insert"]]
               /\ heap' = heap
          ELSE IF key_size = i
          THEN \* the key ends at n: free the scratch nodes, load the value
               /\ heap' = Free(Free(heap, l.intermediate_node_ptr),
                               l.new_leaf_ptr)
               /\ \E l2 \in LoadValue(l, n) : lc' = [lc EXCEPT ![t] = l2]
          ELSE \* the key is longer: follow child[key[i]]
               LET b == l.key[i + 1]
                   nq == n.child[b]
               IN /\ lc' = [lc EXCEPT ![t] =
                              [l EXCEPT !.p = <<l.q, b>>, !.q = nq,
                                        !.pc = IF nq = 0 THEN "insert"
                                               ELSE "descend"]]
                  /\ heap' = heap
    /\ UNCHANGED <<mem, nops, everPut, expect>>
    /\ Tracked
    /\ UNCHANGED <<scanVars, dataVars>>

\* One attempt of the casTagGptr loop of an updating put.
PutCasValue(t) ==
    /\ lc[t].pc = "cas_value"
    /\ lc[t].op = "put"
    /\ LET l == lc[t]
           seen_tq == mem[l.q].value
       IN IF seen_tq = l.tq
          THEN /\ mem' = [mem EXCEPT ![l.q].value = UpdatedValue(l.value, l.tq)]
               /\ lc' = [lc EXCEPT ![t] =
                           ReturnC([l EXCEPT !.pc = "done", !.ret = l.tq],
                                   l.q, UpdatedValue(l.value, l.tq), l.tq)]
          ELSE /\ mem' = mem
               /\ lc' = [lc EXCEPT ![t] = [l EXCEPT !.tq = seen_tq]]
    /\ UNCHANGED <<heap, nops, everPut, expect>>
    /\ Tracked
    /\ UNCHANGED <<scanVars, dataVars>>

\* The single casTagGptr of put with update == false on an invalid value; when
\* it fails the code breaks out of "while (q != 0)" with q still the node.
PutCasInvalid(t) ==
    /\ lc[t].pc = "cas_invalid"
    /\ lc[t].op = "put"
    /\ LET l == lc[t]
           seen_tq == mem[l.q].value
       IN IF seen_tq = l.tq
          THEN /\ mem' = [mem EXCEPT ![l.q].value = UpdatedValue(l.value, l.tq)]
               /\ lc' = [lc EXCEPT ![t] = [l EXCEPT !.pc = "done", !.ret = l.tq]]
          ELSE /\ mem' = mem
               /\ lc' = [lc EXCEPT ![t] = [l EXCEPT !.pc = "insert"]]
    /\ UNCHANGED <<heap, nops, everPut, expect>>
    /\ Tracked
    /\ UNCHANGED <<scanVars, dataVars>>

\* Case 1 of put (q == 0): allocate the leaf unless an earlier attempt did,
\* then cas64 it into the null slot p.  lb is the block Alloc returns; when
\* it is 0 and the asserts are compiled out, the stores through toLocal(0) are
\* taken to reach no node and the cas64 stores the null pointer.
LeafInsert(t, lb) ==
    LET l == lc[t]
        fresh == l.new_leaf_ptr = 0 /\ lb # 0
        leaf == IF fresh THEN lb ELSE l.new_leaf_ptr
        mem1 == IF fresh
                THEN [mem EXCEPT ![lb] = NewLeaf(mem[lb], l.key, l.value)]
                ELSE mem
        heap1 == IF fresh THEN [heap EXCEPT ![lb] = "used"] ELSE heap
        flushed == IF fresh THEN Persist(Store(l.persisted, lb), lb)
                   ELSE l.persisted
        seen_q == SlotValue(mem1, l.p)
    IN IF seen_q = l.q
       THEN /\ mem' = [mem1 EXCEPT ![l.p[1]].child[l.p[2]] = leaf]
            /\ heap' = Free(heap1, l.intermediate_node_ptr)
            /\ lc' = [lc EXCEPT ![t] =
                        ReturnC([l EXCEPT !.new_leaf_ptr = leaf, !.pc = "done",
                                          !.ret = Invalid,
                                          !.persisted = flushed],
                                leaf, TagGptr(l.value, 0), Invalid)]
       ELSE /\ mem' = mem1
            /\ heap' = heap1
            /\ lc' = [lc EXCEPT ![t] =
                        [l EXCEPT !.new_leaf_ptr = leaf, !.q = seen_q,
                                  !.persisted = flushed,
                                  !.pc = IF seen_q = 0 THEN "insert"
                                         ELSE "descend"]]

\* The intermediate node as put links it before the cas64: with the value when
\* the key ends at the split position, else with the new leaf as a child.
LinkIntermediate(blk, l, leaf) ==
    IF l.prefix_size = Len(l.key)
    THEN [blk EXCEPT !.value = TagGptr(l.value, 0),
                     !.prefix_size = l.prefix_size,
                     !.child[l.existing] = l.q]
    ELSE [blk EXCEPT !.child[l.key[l.prefix_size + 1]] = leaf,
                     !.prefix_size = l.prefix_size,
                     !.child[l.existing] = l.q]

\* Case 2 of put (q != 0): allocate the intermediate node and, when the key
\* goes on past the split position, the leaf, unless an earlier attempt did;
\* link them and cas64 the intermediate node into slot p in place of q.
\* ib and lb are the blocks the two Alloc calls return (0: see LeafInsert).
Split(t, ib, lb) ==
    LET l == lc[t]
        freshI == l.intermediate_node_ptr = 0 /\ ib # 0
        inter == IF freshI THEN ib ELSE l.intermediate_node_ptr
        mem1 == IF freshI
                THEN [mem EXCEPT ![ib] = NewIntermediate(mem[ib], l.key)]
                ELSE mem
        heap1 == IF freshI THEN [heap EXCEPT ![ib] = "used"] ELSE heap
        atKey == l.prefix_size = Len(l.key)
        freshL == ~atKey /\ l.new_leaf_ptr = 0 /\ lb # 0
        leaf == IF freshL THEN lb ELSE l.new_leaf_ptr
        mem2 == IF freshL
                THEN [mem1 EXCEPT ![lb] = NewLeaf(mem1[lb], l.key, l.value)]
                ELSE mem1
        heap2 == IF freshL THEN [heap1 EXCEPT ![lb] = "used"] ELSE heap1
        mem3 == IF inter = 0 THEN mem2
                ELSE [mem2 EXCEPT ![inter] =
                                     LinkIntermediate(mem2[inter], l, leaf)]
        seen_q == SlotValue(mem3, l.p)
        \* the stores and fam_persist calls in program order
        flushed1 == IF freshI THEN Store(l.persisted, inter) ELSE l.persisted
        flushed2 == IF freshL THEN Persist(Store(flushed1, lb), lb)
                    ELSE flushed1
        flushed3 == IF inter = 0 THEN flushed2
                    ELSE Persist(Store(flushed2, inter), inter)
        l1 == [l EXCEPT !.intermediate_node_ptr = inter, !.new_leaf_ptr = leaf,
                        !.persisted = flushed3]
    IN IF seen_q = l.q
       THEN /\ mem' = [mem3 EXCEPT ![l.p[1]].child[l.p[2]] = inter]
            /\ heap' = IF atKey THEN Free(heap2, l.new_leaf_ptr) ELSE heap2
            /\ lc' = [lc EXCEPT ![t] =
                        ReturnC([l1 EXCEPT !.pc = "done", !.ret = Invalid],
                                IF atKey THEN inter ELSE leaf,
                                TagGptr(l.value, 0), Invalid)]
       ELSE /\ mem' = mem3
            /\ heap' = heap2
            /\ lc' = [lc EXCEPT ![t] =
                        [l1 EXCEPT !.q = seen_q,
                                   !.pc = IF seen_q = 0 THEN "insert"
                                          ELSE "descend"]]

\* What "if (ptr == 0) ptr = heap->Alloc(...)" can leave in ptr on the heap h.
AllocIfNull(ptr, h) == IF ptr = 0 THEN AllocChoices(h) ELSE {ptr}

\* The number of times an allocation is tried.
alloc_retry_cnt == 2

\* "while (ptr == 0 && (cnt--) > 0) ptr = heap->Alloc(sizeof(Node))": what it
\* leaves in ptr.  Alloc returns a block or, when nomem, 0.
RECURSIVE AllocRetry(_, _, _)
AllocRetry(h, cnt, nomem) ==
    IF cnt = 0 THEN {0}
    ELSE AllocChoices(h) \cup
         (IF nomem THEN AllocRetry(h, cnt - 1, nomem) ELSE {})

AllocLoop(ptr, h, nomem) ==
    IF ptr = 0 THEN AllocRetry(h, alloc_retry_cnt, nomem) ELSE {ptr}

\* "assert(ptr.IsValid())" fails and ends the process: the call never returns.
\* The intermediate node, when this attempt allocated it before the leaf, has
\* been filled in already.
AssertFails(t, ib) ==
    LET l == lc[t]
        freshI == l.q # 0 /\ l.intermediate_node_ptr = 0 /\ ib # 0
    IN /\ mem' = IF freshI
                 THEN [mem EXCEPT ![ib] = NewIntermediate(mem[ib], l.key)]
                 ELSE mem
       /\ heap' = IF freshI THEN [heap EXCEPT ![ib] = "used"] ELSE heap
       /\ lc' = [lc EXCEPT ![t] =
                   [l EXCEPT !.pc = "aborted",
                             !.intermediate_node_ptr = IF freshI THEN ib ELSE @]]

\* What the code does with the pointers its allocation loops left: with all of
\* them non-null it goes on; with a null one the assert stops it, or, compiled
\* with NDEBUG, it goes on too.
AfterAlloc(t, ib, lb, go) ==
    IF go THEN (IF lc[t].q = 0 THEN LeafInsert(t, lb) ELSE Split(t, ib, lb))
    ELSE AssertFails(t, ib)

\* An allocation loop of the attempt left a null pointer.
AllocFailed(l, ib, lb) ==
    IF l.q = 0 THEN lb = 0
    ELSE ib = 0 \/ (l.prefix_size # Len(l.key) /\ lb = 0)

\* The code after "while (q != 0)": case 1 or case 2, up to its cas64.
PutInsert(t) ==
    /\ lc[t].pc = "insert"
    /\ lc[t].op = "put"
    /\ LET l == lc[t]
       IN \E ib \in (IF l.q = 0 THEN {l.intermediate_node_ptr}
                     ELSE AllocLoop(l.intermediate_node_ptr, heap, l.nomem)) :
             \E lb \in (IF l.q # 0 /\ l.prefix_size = Len(l.key)
                        THEN {l.new_leaf_ptr}
                        ELSE AllocLoop(l.new_leaf_ptr,
                                       IF l.q = 0 \/ ib = 0 THEN heap
                                       ELSE [heap EXCEPT ![ib] = "used"],
                                       l.nomem)) :
                \E go \in (IF AllocFailed(l, ib, lb) THEN BOOLEAN ELSE {TRUE}) :
                   AfterAlloc(t, ib, lb, go)
    /\ UNCHANGED <<nops, everPut, expect>>
    /\ Tracked
    /\ UNCHANGED <<scanVars, dataVars>>

\* ------------------------------------------------------------- scan
\* RadixTree::OPEN_BOUNDARY_KEY of size OPEN_BOUNDARY_KEY_SIZE: the one byte 0.
OPEN_BOUNDARY_KEY == <<0>>

\* Node::child has NumSlots slots (256 in the source); next_pos == GoUp (257)
\* says the node is done.
NumSlots == MaxByte + 1
GoUp == NumSlots + 1

\* uint64_t arithmetic is modulo WordRange (2^64 in the source).
WordRange == 65536

\* key[i] read through "char const *": the top half of the bytes is negative.
AsChar(b) == IF 2 * b >= NumSlots THEN b - NumSlots ELSE b

\* (uint64_t)c
ToU64(c) == c % WordRange

\* fam_memcmp(a, b, len): the sign of the first difference, bytes unsigned.
Memcmp(a, b, len) ==
    LET D == {j \in 1 .. len : a[j] # b[j]}
    IN IF D = {} THEN 0
       ELSE LET j == CHOOSE x \in D : \A y \in D : x <= y
            IN IF a[j] < b[j] THEN 0 - 1 ELSE 1

\* std::string operator<
StrLess(a, b) ==
    LET c == Memcmp(a, b, Min(Len(a), Len(b)))
    IN c < 0 \/ (c = 0 /\ Len(a) < Len(b))

\* s.data()[i] of a std::string (i counted from 0): the terminating 0 at
\* i == size(), whatever lies behind the buffer (oob) past it.
StrAt(s, i, oob) ==
    IF i < Len(s) THEN s[i + 1] ELSE IF i = Len(s) THEN 0 ELSE oob

\* iter.key = string(n->key, n->prefix_size); iter.value = tq
Yield(it, n) ==
    [it EXCEPT !.key = SubSeq(n.key, 1, n.prefix_size), !.value = n.value]

\* iter.path.push((iter.node, pos - 1)); iter.node = q; iter.next_pos = 0
GoDown(it, pos, q) ==
    [it EXCEPT !.path = Append(@, <<it.node, pos - 1>>), !.node = q,
               !.next_pos = 0]

\* The first position in from .. to whose child slot is not null, 0 if none.
FirstChild(n, from, to) ==
    LET C == {pos \in from .. to : n.child[pos - 1] # 0}
    IN IF C = {} THEN 0 ELSE CHOOSE x \in C : \A y \in C : x <= y

\* child[256] of the node n: a word of n->value.
BehindChild(n, word) == IF word = 0 THEN n.value.gptr ELSE n.value.tag

\* One iteration of "while (iter.node != 0)" of RadixTree::next_value on the
\* tree m.  done is "go" when the loop goes on, "true" or "false" when
\* next_value returns, "crash" when the loop runs through memory behind the
\* child array without end.  oob is the byte an out-of-bounds read of the end
\* key gives; word says which word of n->value, the memory behind the child
\* array, a read of child[256] gives.
NextValueIter(m, it, oob, oq) ==
    IF it.node = 0 THEN [it |-> it, done |-> "false"]
    ELSE IF it.next_pos > GoUp THEN [it |-> it, done |-> "crash"]
    ELSE IF it.next_pos = GoUp
    THEN IF it.path = <<>> THEN [it |-> it, done |-> "false"]
         ELSE LET parent == it.path[Len(it.path)]
              IN [it |-> [it EXCEPT !.path = SubSeq(@, 1, Len(@) - 1),
                                    !.node = parent[1],
                                    !.next_pos = parent[2] + 1 + 1],
                  done |-> "go"]
    ELSE
    LET n == m[it.node]
        key == it.end_key
        key_size == Len(key)
        result == IF it.end_key_open THEN 1
                  ELSE Memcmp(key, n.key, Min(n.prefix_size, key_size))
        from == IF it.next_pos = 0 THEN 1 ELSE it.next_pos
    IN IF result < 0 THEN [it |-> it, done |-> "false"]
       ELSE IF result > 0
       THEN IF it.next_pos = 0 /\ IsValid(n.value)
            THEN [it |-> Yield([it EXCEPT !.next_pos = 1], n), done |-> "true"]
            ELSE LET pos == FirstChild(n, from, NumSlots)
                 IN IF pos # 0
                    THEN [it |-> GoDown(it, pos, n.child[pos - 1]),
                          done |-> "go"]
                    ELSE [it |-> [it EXCEPT !.next_pos = GoUp], done |-> "go"]
       ELSE IF n.prefix_size = key_size
       THEN IF it.end_key_inclusive /\ it.next_pos = 0 /\ IsValid(n.value)
            THEN [it |-> Yield([it EXCEPT !.node = 0], n), done |-> "true"]
            ELSE [it |-> [it EXCEPT !.node = 0], done |-> "false"]
       ELSE IF it.next_pos = 0 /\ IsValid(n.value)
            THEN [it |-> Yield([it EXCEPT !.next_pos = 1], n), done |-> "true"]
            ELSE LET upper_bound ==
                         ToU64(AsChar(StrAt(key, n.prefix_size, oob)))
                     limit == (upper_bound + 1) % WordRange
                     pos == FirstChild(n, from, Min(limit, NumSlots))
                 IN IF pos # 0
                    THEN [it |-> GoDown(it, pos, n.child[pos - 1]),
                          done |-> "go"]
                    ELSE IF limit <= NumSlots
                    THEN [it |-> [it EXCEPT !.node = 0,
                                            !.next_pos =
                                                IF from > limit THEN from
                                                ELSE limit + 1],
                          done |-> "false"]
                    ELSE LET q == BehindChild(n, oq)
                         IN IF q \in Blocks
                            THEN [it |-> GoDown(it, GoUp, q), done |-> "go"]
                            ELSE [it |-> [it EXCEPT !.next_pos = GoUp + 1],
                                  done |-> "crash"]

\* RadixTree::next_value run until it returns.
RECURSIVE NextValueRun(_, _, _, _, _)
NextValueRun(m, it, oob, oq, fuel) ==
    LET r == NextValueIter(m, it, oob, oq)
    IN IF r.done # "go" THEN r
       ELSE IF fuel = 0 THEN [it |-> r.it, done |-> "crash"]
       ELSE NextValueRun(m, r.it, oob, oq, fuel - 1)

next_value(m, it, oob, oq) == NextValueRun(m, it, oob, oq, 3 * NumBlocks)

\* RadixTree::lower_bound from the node iter.node on, run until it returns.
RECURSIVE LowerBoundRun(_, _, _, _, _)
LowerBoundRun(m, it, oob, oq, fuel) ==
    IF it.node = 0 THEN [it |-> it, done |-> "false"]
    ELSE IF fuel = 0 THEN [it |-> it, done |-> "crash"]
    ELSE
    LET n == m[it.node]
        key == it.begin_key
        key_size == Len(key)
        result == IF it.begin_key_open THEN 0 - 1
                  ELSE Memcmp(key, n.key, Min(n.prefix_size, key_size))
    IN IF result > 0
       THEN next_value(m, [it EXCEPT !.next_pos = GoUp], oob, oq)
       ELSE IF result < 0 THEN next_value(m, it, oob, oq)
       ELSE IF n.prefix_size = key_size
       THEN IF it.begin_key_inclusive THEN next_value(m, it, oob, oq)
            ELSE next_value(m, [it EXCEPT !.next_pos = 1], oob, oq)
       ELSE LET idx == StrAt(key, n.prefix_size, oob)
                q == n.child[idx]
            IN IF q # 0
               THEN LowerBoundRun(m, [it EXCEPT
                                        !.path = Append(@, <<it.node, idx>>),
                                        !.node = q],
                                  oob, oq, fuel - 1)
               ELSE next_value(m, [it EXCEPT !.next_pos = idx + 1], oob, oq)

lower_bound(m, it, oob, oq) ==
    LowerBoundRun(m, [it EXCEPT !.node = Root, !.next_pos = 0,
                                !.value = Invalid],
                  oob, oq, NumBlocks)

\* What a call of scan or get_next hands back: the iterator, the return code
\* and, when a key was found, the key and its value.
\* Faulty variant: the key handed back is iter.key, not the key found.
Found_IterKey(it, key, val) ==
    [it |-> it, ret |-> "found", out |-> <<<<it.key, val>>>>]

Found(it, key, val) == [it |-> it, ret |-> "found", out |-> <<<<key, val>>>>]
NotFound(it, done) ==
    [it |-> it, ret |-> IF done = "crash" THEN "crash" ELSE "not_found",
     out |-> <<>>]

\* Faulty variant: scan leaves the position of the iterator as it is.
ResetIter_KeepsPosition(it) == it

\* The start of scan: the iterator's position, key, value and path are cleared.
ResetIter(it) ==
    [it EXCEPT !.node = 0, !.next_pos = 0, !.key = <<>>, !.value = Invalid,
               !.path = <<>>]

\* The test of scan before its range query: a bound is open or begin < end.
RangeQuery(it) ==
    (it.begin_key_open \/ it.end_key_open) \/ StrLess(it.begin_key, it.end_key)

\* RadixTree::scan on the tree m with the caller's iterator it.
Scan(m, it, begin_key, begin_key_inclusive, end_key, end_incl, oob, oq) ==
    LET end_key_inclusive == end_incl
        it1 == [ResetIter(it) EXCEPT
                  !.begin_key = begin_key,
                  !.begin_key_inclusive = begin_key_inclusive,
                  !.begin_key_open = (begin_key = OPEN_BOUNDARY_KEY
                                      /\ it.end_key_inclusive = FALSE),
                  !.end_key = end_key,
                  !.end_key_inclusive = end_key_inclusive,
                  !.end_key_open = (end_key = OPEN_BOUNDARY_KEY
                                    /\ end_key_inclusive = FALSE)]
    IN IF begin_key = end_key /\ begin_key_inclusive /\ end_key_inclusive
       THEN \* point query
            LET val == Get(m, begin_key, oob)
            IN IF val = Looping THEN NotFound(it1, "crash")
               ELSE IF IsValid(val) THEN Found(it1, begin_key, val)
               ELSE NotFound(it1, "false")
       ELSE IF RangeQuery(it1)
       THEN LET r == lower_bound(m, it1, oob, oq)
            IN IF r.done = "true" THEN Found(r.it, r.it.key, r.it.value)
               ELSE NotFound(r.it, r.done)
       ELSE NotFound(it1, "false")

\* Faulty variant: get_next starts again from the begin key.
get_next_FromBegin(m, it, oob, oq) ==
    LET r == lower_bound(m, it, oob, oq)
    IN IF r.done = "true" THEN Found(r.it, r.it.key, r.it.value)
       ELSE NotFound(r.it, r.done)

\* RadixTree::get_next
get_next(m, it, oob, oq) ==
    LET r == next_value(m, it, oob, oq)
    IN IF r.done = "true" THEN Found(r.it, r.it.key, r.it.value)
       ELSE NotFound(r.it, r.done)

\* A call of scan with bounds from K and inclusive flags from F, run from
\* start to return.
DoScan(K, F) ==
    /\ scanret # "crash"
    /\ \E begin_key \in K, end_key \in K, bi \in F, ei \in F,
          oob \in Bytes, oq \in {0, 1} :
          LET r == Scan(mem, iter, begin_key, bi, end_key, ei, oob, oq)
          IN /\ iter' = r.it
             /\ scanret' = r.ret
             /\ yielded' = r.out
    /\ UNCHANGED <<mem, heap, lc, nops, everPut, expect, pmem, stored>>
    /\ UNCHANGED dataVars

\* A call of get_next on the iterator of the last scan, from start to return.
DoGetNext ==
    /\ scanret \in {"found", "not_found"}
    /\ \E oob \in Bytes, oq \in {0, 1} :
          LET r == get_next(mem, iter, oob, oq)
          IN /\ iter' = r.it
             /\ scanret' = r.ret
             /\ yielded' = yielded \o r.out
    /\ UNCHANGED <<mem, heap, lc, nops, everPut, expect, pmem, stored>>
    /\ UNCHANGED dataVars

\* A call of scan while no put or destroy is running.
CallScan(K) == (\A t \in Threads : Ready(t)) /\ DoScan(K, BOOLEAN)

\* A call of get_next while no put or destroy is running.
CallGetNext == (\A t \in Threads : Ready(t)) /\ DoGetNext

\* ------------------------------------------------------------- specifications
\* The steps of a running call.
Steps(t) ==
    \/ PutDescend(t)
    \/ PutCasValue(t)
    \/ PutCasInvalid(t)
    \/ PutInsert(t)
    \/ GetDescend(t)
    \/ DestroyDescend(t)
    \/ DestroyCas(t)

\* Threads calling put, get and destroy concurrently, any key, any flag.
ConcPut(t) == CallPut(t, ConcKeys, BOOLEAN, MaxOps) /\ UNCHANGED expect
ConcGet(t) == CallGet(t, ConcKeys, MaxOps) /\ UNCHANGED expect
ConcDestroy(t) == CallDestroy(t, ConcKeys, MaxOps) /\ UNCHANGED expect

Next ==
    \E t \in Threads :
        \/ ConcPut(t)
        \/ ConcGet(t)
        \/ ConcDestroy(t)
        \/ Steps(t)

Spec == Init /\ [][Next]_vars

\* The PMEM build: threads calling put, get and destroy concurrently.
PmemKeys == { <<1>>, <<1, 1>> }

PmemPut(t) == CallPut(t, PmemKeys, BOOLEAN, MaxOps) /\ UNCHANGED expect
PmemGet(t) == CallGet(t, PmemKeys, MaxOps) /\ UNCHANGED expect
PmemDestroy(t) == CallDestroy(t, PmemKeys, MaxOps) /\ UNCHANGED expect

NextPmem ==
    \E t \in Threads :
        \/ PmemPut(t)
        \/ PmemGet(t)
        \/ PmemDestroy(t)
        \/ Steps(t)
        \/ PmemLoad(t)

SpecPmem == InitPmem /\ [][NextPmem]_vars

\* Threads calling put concurrently, each on its own keys, under two first
\* bytes.
PutKeys(t) ==
    IF t = 1 THEN { <<1>>, <<1, 1>>, <<2>> } ELSE { <<1, 2>>, <<1, 1, 2>> }

PutOnly(t) == CallPut(t, PutKeys(t), BOOLEAN, MaxOps) /\ UNCHANGED expect

NextPuts ==
    \E t \in Threads :
        \/ PutOnly(t)
        \/ PutDescend(t)
        \/ PutCasValue(t)
        \/ PutCasInvalid(t)
        \/ PutInsert(t)

SpecPuts == Init /\ [][NextPuts]_vars

\* A put with update == false on one key racing a thread that puts, destroys
\* and gets that key, under a fair scheduler: a call that has a step to take
\* takes it.
RaceKey == { <<1>> }
RacerOps == 2
WriterOps == 3
Racer == SeqThread
Writer == CHOOSE t \in Threads : t # Racer

RacerPut == CallPut(Racer, RaceKey, {FALSE}, RacerOps) /\ UNCHANGED expect
WriterPut == CallPut(Writer, RaceKey, BOOLEAN, WriterOps) /\ UNCHANGED expect
WriterGet == CallGet(Writer, RaceKey, WriterOps) /\ UNCHANGED expect
WriterDestroy == CallDestroy(Writer, RaceKey, WriterOps) /\ UNCHANGED expect

NextRace ==
    \/ RacerPut
    \/ WriterPut
    \/ WriterGet
    \/ WriterDestroy
    \/ \E t \in Threads : Steps(t)

SpecRace ==
    Init /\ [][NextRace]_vars /\ \A t \in Threads : WF_vars(Steps(t))

\* One caller that builds a tree with put and destroy and then scans it, more
\* than once, with one iterator.
ScanKeys == { <<0, 1>>, <<1>>, <<1, 1>>, <<2>> }
ScanBounds == { OPEN_BOUNDARY_KEY, <<1>>, <<1, 1, 1>> }
ScanOps == 2

ScanPut ==
    /\ scanret = "none"
    /\ CallPut(SeqThread, ScanKeys, {TRUE}, ScanOps)
    /\ UNCHANGED expect

ScanDestroy ==
    /\ scanret = "none"
    /\ CallDestroy(SeqThread, ScanKeys, ScanOps)
    /\ UNCHANGED expect

NextScan ==
    \/ ScanPut
    \/ ScanDestroy
    \/ CallScan(ScanBounds)
    \/ CallGetNext
    \/ PutDescend(SeqThread)
    \/ PutCasValue(SeqThread)
    \/ PutInsert(SeqThread)
    \/ DestroyDescend(SeqThread)
    \/ DestroyCas(SeqThread)

SpecScan == Init /\ [][NextScan]_vars

\* Two threads calling put while a third caller scans the whole tree; a call
\* of scan or get_next runs between two steps of the writers.
WriterKeys(t) == IF t = Racer THEN { <<1, 1>>, <<1, 2>> } ELSE { <<1, 1>> }

WriterCalls(t) == IF t = Racer THEN MaxOps ELSE MaxOps - 1

WriterCall(t) ==
    CallPut(t, WriterKeys(t), {FALSE}, WriterCalls(t)) /\ UNCHANGED expect

RacingScan == DoScan({OPEN_BOUNDARY_KEY}, {FALSE})

NextScanConc ==
    \/ \E t \in Threads :
          \/ WriterCall(t)
          \/ PutDescend(t)
          \/ PutInsert(t)
    \/ RacingScan
    \/ DoGetNext

SpecScanConc == Init /\ [][NextScanConc]_vars

\* One thread calling put, get and destroy one after the other.
SeqPut == CallPut(SeqThread, Keys, BOOLEAN, MaxSeqOps) /\ UNCHANGED expect
SeqGet == CallGet(SeqThread, Keys, MaxSeqOps) /\ UNCHANGED expect
SeqDestroy == CallDestroy(SeqThread, Keys, MaxSeqOps) /\ UNCHANGED expect

NextSeq ==
    \/ SeqPut
    \/ SeqGet
    \/ SeqDestroy
    \/ Steps(SeqThread)

SeqSpec == Init /\ [][NextSeq]_vars

\* Threads working on pairwise disjoint key sets that share prefixes.
\* expect[k] is what the owner's calls on k, in the order it made them, leave
\* for k: the value put (a put with update == false keeps a value that is
\* there), 0 after destroy, -1 while k was never written.
Own(t) == IF t = 1 THEN { <<1>>, <<1, 1>> } ELSE { <<1, 1, 2>>, <<1, 2>> }

OwnPut(t) ==
    /\ CallPut(t, Own(t), BOOLEAN, MaxOps)
    /\ expect' = [expect EXCEPT ![lc'[t].key] =
                     IF lc'[t].update \/ @ <= 0 THEN lc'[t].value ELSE @]

OwnDestroy(t) ==
    /\ CallDestroy(t, Own(t), MaxOps)
    /\ expect' = [expect EXCEPT ![lc'[t].key] = 0]

OwnGet(t) == CallGet(t, Own(t), MaxOps) /\ UNCHANGED expect

NextDisjoint ==
    \E t \in Threads :
        \/ OwnPut(t)
        \/ OwnDestroy(t)
        \/ OwnGet(t)
        \/ Steps(t)

SpecDisjoint == Init /\ [][NextDisjoint]_vars

\* ============================================================= properties
Running(t) == ~Ready(t)
Quiescent == \A t \in Threads : Ready(t)
PutDone(t) == lc[t].pc = "done" /\ lc[t].op = "put"
DestroyDone(t) == lc[t].pc = "done" /\ lc[t].op = "destroy"

\* key[0..prefix_size) of a node, as a sequence.
NodeKey(n) == [j \in 1 .. n.prefix_size |-> n.key[j]]

\* C1 (round trip): once put(k, v, update = true) has returned, get(k) returns
\* a valid tagged value whose gptr is v.
C1_RoundTrip ==
    \A t \in Threads :
        (PutDone(t) /\ lc[t].update) =>
            \A r \in GetSet(mem, lc[t].key) :
                IsValid(r) /\ r.gptr = lc[t].value

\* A put with update = true has returned after overwriting a valid value with
\* a different one.
C1_Witness ==
    /\ PutDone(SeqThread)
    /\ lc[SeqThread].update
    /\ IsValid(lc[SeqThread].ret)
    /\ lc[SeqThread].ret.gptr # lc[SeqThread].value

\* C2 (prior value): put(k, v, flag) returns exactly what get(k) returned at the
\* instant of the call (invalid when k had no node or a destroyed value), and
\* when the put created the first node for k, as a leaf or as a split node,
\* get(k) is now (v, tag 0).
C2_PutReturnsPrior ==
    \A t \in Threads :
        PutDone(t) =>
            /\ lc[t].g0 = {lc[t].ret}
            /\ (lc[t].new_leaf_ptr # 0 \/ lc[t].intermediate_node_ptr # 0) =>
                   /\ lc[t].ret = Invalid
                   /\ GetSet(mem, lc[t].key) = {TagGptr(lc[t].value, 0)}

\* A put has returned after publishing a split node together with a new leaf.
C2_Witness ==
    /\ PutDone(SeqThread)
    /\ lc[SeqThread].new_leaf_ptr # 0
    /\ lc[SeqThread].intermediate_node_ptr # 0

\* C3 (update guard): put(k, v2, update = false) on a key whose value is valid
\* changes no node and no heap block in any of its steps, never reaches a CAS,
\* and returns the value that was there, which get(k) still returns.
C3_UpdateGuard ==
    [][\A t \in Threads :
          (/\ lc[t].op = "put" /\ ~lc[t].update /\ Running(t)
           /\ \E x \in lc[t].g0 : IsValid(x)
           /\ lc'[t] # lc[t])
          => /\ mem' = mem
             /\ heap' = heap
             /\ lc'[t].pc \in {"descend", "done"}
             /\ lc'[t].pc = "done" =>
                    /\ lc[t].g0 = {lc'[t].ret}
                    /\ GetSet(mem', lc[t].key) = lc[t].g0]_vars

\* A put with update = false has returned the valid value it found, which is
\* not the value it was given.
C3_Witness ==
    /\ PutDone(SeqThread)
    /\ ~lc[SeqThread].update
    /\ IsValid(lc[SeqThread].ret)
    /\ lc[SeqThread].ret.gptr # lc[SeqThread].value

\* C4 (overwrite): put(k, v, update = true) on a key whose value is the valid
\* (v0, t) returns (v0, t) and leaves get(k) = (v, t + 1), also when v = v0.
C4_Overwrite ==
    \A t \in Threads :
        (PutDone(t) /\ lc[t].update) =>
            \A x \in lc[t].g0 :
                IsValid(x) =>
                    /\ lc[t].ret = x
                    /\ GetSet(mem, lc[t].key) =
                           {TagGptr(lc[t].value, x.tag + 1)}

\* An updating put has overwritten, for the second time at least, a value
\* with the same value.
C4_Witness ==
    /\ PutDone(SeqThread)
    /\ lc[SeqThread].update
    /\ lc[SeqThread].ret.gptr = lc[SeqThread].value
    /\ lc[SeqThread].ret.tag >= 1

\* C5 (delete then get): when destroy(k) found the valid (v0, t), get(k) is
\* invalid once it has returned; the next put(k, v) returns an invalid value
\* and leaves get(k) = v with a tag greater than t.
C5_DeleteThenGet ==
    \A t \in Threads :
        /\ (DestroyDone(t) /\ IsValid(lc[t].ret)) =>
               \A r \in GetSet(mem, lc[t].key) : ~IsValid(r)
        /\ (PutDone(t) /\ lc[t].prev # <<>> /\ lc[t].prev[1] = lc[t].key) =>
               /\ ~IsValid(lc[t].ret)
               /\ \A r \in GetSet(mem, lc[t].key) :
                      r.gptr = lc[t].value /\ r.tag > lc[t].prev[2]

\* A put with update = false has returned on the key the call before it
\* destroyed.
C5_Witness ==
    /\ PutDone(SeqThread)
    /\ ~lc[SeqThread].update
    /\ lc[SeqThread].prev # <<>>
    /\ lc[SeqThread].prev[1] = lc[SeqThread].key

\* C6 (no phantom keys): when no call is running, get(k) returns an invalid
\* tagged value for every key k that was never passed to put.
C6_NoPhantomKeys ==
    Quiescent =>
        \A k \in Keys \ everPut :
            \A r \in GetSet(mem, k) : ~IsValid(r)

\* C7 (put frame): no step of put(k2, v, flag), taken while no other call is
\* running, changes what get(k1) returns for a key k1 # k2.
C7_PutKeepsOtherKeys ==
    [][\A t \in Threads :
          (/\ lc[t].op = "put" /\ Running(t) /\ lc'[t] # lc[t]
           /\ \A u \in Threads \ {t} : Ready(u))
          => \A k1 \in Keys \ {lc[t].key} :
                 GetSet(mem', k1) = GetSet(mem, k1)]_vars

\* C8 (destroy frame): a step of destroy(k) frees or allocates nothing and
\* either leaves every node as it is, and then returns, if it returns, an
\* invalid value, or replaces the value (g, t) of one node whose prefix is k
\* by (0, t + 1), changes nothing else, and returns (g, t).
C8_DestroyFrame ==
    [][\A t \in Threads :
          (lc[t].op = "destroy" /\ Running(t) /\ lc'[t] # lc[t])
          => /\ heap' = heap
             /\ \/ /\ mem' = mem
                   /\ lc'[t].pc = "done" => lc'[t].ret = Invalid
                \/ \E b \in Blocks :
                      /\ NodeKey(mem[b]) = lc[t].key
                      /\ mem' = [mem EXCEPT ![b].value =
                                    TagGptr(0, mem[b].value.tag + 1)]
                      /\ lc'[t].pc = "done"
                      /\ lc'[t].ret = mem[b].value]_vars

\* A destroy has returned a valid value whose tag earlier writes had raised.
C8_Witness ==
    \E t \in Threads :
        /\ DestroyDone(t)
        /\ IsValid(lc[t].ret)
        /\ lc[t].ret.tag >= 1

\* The step with which a call takes effect: for put the step it returns with
\* (a successful CAS, or the load of the valid value it keeps), for destroy the
\* successful casTagGptr, for get the load of the value of the node of its key.
TakesEffect(t) ==
    /\ Running(t)
    /\ lc'[t].pc = "done"
    /\ \/ lc[t].op = "put"
       \/ lc[t].op = "destroy" /\ lc[t].pc = "cas_value"
       \/ /\ lc[t].op = "get"
          /\ MemcmpEq(lc[t].key, mem[lc[t].q])
          /\ mem[lc[t].q].prefix_size = Len(lc[t].key)

\* C9 (linearizability at the stated points): the tagged value a call returns
\* is the one get(k) returns at the instant the call takes effect, and right
\* after that instant get(k) returns what the call, run alone at that instant,
\* leaves: (v, t + 1) or, in a new node, (v, 0) for a put that writes, the
\* value as it was for a put that keeps it and for get, (0, t + 1) for destroy.
C9_Linearizable ==
    [][\A t \in Threads :
          TakesEffect(t) =>
              LET k == lc[t].key
                  r == lc'[t].ret
                  v == lc[t].value
                  after == GetSet(mem', k)
              IN /\ GetSet(mem, k) = {r}
                 /\ lc[t].op = "put" =>
                        IF lc[t].update \/ ~IsValid(r)
                        THEN \/ after = {TagGptr(v, r.tag + 1)}
                             \/ mem' # mem /\ r = Invalid
                                /\ after = {TagGptr(v, 0)}
                        ELSE after = {r}
                 /\ lc[t].op = "destroy" => after = {TagGptr(0, r.tag + 1)}
                 /\ lc[t].op = "get" => after = {r}]_vars

\* C10 (disjoint writers): when every thread has finished, get(k) returns for
\* every key k its owner has written the result of the last call the owner
\* made on k: gptr v after put(k, v), an invalid value after destroy(k).
C10_DisjointWriters ==
    Quiescent =>
        \A k \in Keys :
            expect[k] >= 0 =>
                \A r \in GetSet(mem, k) :
                    IF expect[k] > 0 THEN r.gptr = expect[k] ELSE r.gptr = 0

\* The blocks reachable from the root through child slots.
RECURSIVE ReachableFrom(_, _, _)
ReachableFrom(m, S, fuel) ==
    LET N == S \cup ({m[b].child[c] : b \in S, c \in Bytes} \ {0})
    IN IF N = S \/ fuel = 0 THEN S ELSE ReachableFrom(m, N, fuel - 1)

Reachable(m) == ReachableFrom(m, {Root}, NumBlocks)

\* C11 (structural invariant): for every node N reachable from the root and
\* every non-null N.child[b], the child's key agrees with N.key on the first
\* N.prefix_size bytes, the child's key byte at index N.prefix_size is b, and
\* the child's prefix_size is greater than N.prefix_size.
C11_Structure ==
    \A n \in Reachable(mem) :
        \A b \in Bytes :
            LET c == mem[n].child[b]
                ps == mem[n].prefix_size
            IN c # 0 =>
                   /\ \A j \in 1 .. ps : mem[c].key[j] = mem[n].key[j]
                   /\ ps < MAX_KEY_LEN
                   /\ mem[c].key[ps + 1] = b
                   /\ mem[c].prefix_size > ps

\* C12 (tag monotonicity): every step that changes the value slot of a node
\* reachable from the root replaces (g, t) by (g', t + 1), and the tag get(k)
\* returns for a key k never goes down from one state to the next.
C12_TagMonotone ==
    [][mem' # mem =>
          /\ \A b \in Reachable(mem) :
                 mem'[b].value # mem[b].value =>
                     mem'[b].value.tag = mem[b].value.tag + 1
          /\ \A k \in Keys :
                 \A r \in GetSet(mem, k) :
                     \A r2 \in GetSet(mem', k) : r2.tag >= r.tag]_vars

\* C13 (no torn reads): the tagged value get returns from the value slot of a
\* node is a (gptr, tag) pair that slot has held at some instant.
C13_NoTornReads ==
    [][\A t \in Threads :
          (/\ lc[t].op = "get" /\ Running(t) /\ lc'[t].pc = "done"
           /\ \/ lc[t].pc \in {"load_tag", "load_gptr"}
              \/ lc[t].pc = "descend" /\ AtKeyNode(lc[t], mem[lc[t].q]))
          => lc'[t].ret \in stored'[lc[t].q] \cup {mem[lc[t].q].value}]_vars

\* C14 (published nodes are never freed): no block reachable from the root
\* through child slots is on the heap's free list.
C14_PublishedNeverFreed ==
    \A n \in Reachable(mem) : heap[n] # "free"

\* The slots of block b (child[c] as <<"child", c>>, value as <<"value">>)
\* that differ between the heaps m and m2.
ChangedSlots(m, m2, b) ==
    {<<"child", c>> : c \in {x \in Bytes : m2[b].child[x] # m[b].child[x]}}
        \cup (IF m2[b].value # m[b].value THEN {<<"value">>} ELSE {})

\* C15 (no half-constructed node): no step writes the key bytes or the
\* prefix_size of a node reachable from the root, and a step changes at most
\* one child or value slot of the reachable nodes (the slot of its CAS).
C15_PublishedImmutable ==
    [][mem' # mem =>
          /\ \A b \in Reachable(mem) :
                 /\ mem'[b].key = mem[b].key
                 /\ mem'[b].prefix_size = mem[b].prefix_size
          /\ Cardinality({<<b, sl>> \in Reachable(mem) \X
                             ({<<"child", c>> : c \in Bytes} \cup {<<"value">>}) :
                            sl \in ChangedSlots(mem, mem', b)}) <= 1]_vars

\* The step in which put publishes a node by cas64 into the child slot p.
Publishes(t) ==
    /\ lc[t].op = "put"
    /\ lc[t].pc = "insert"
    /\ lc'[t].pc = "done"

\* C16 (persist before publish): when a cas64 of put publishes a node, the
\* publishing thread has flushed that node after its last store into it, and
\* for a split that links a new leaf, that leaf too; the constructor has
\* flushed the root.
C16_PersistBeforePublish ==
    [][\A t \in Threads :
          Publishes(t) =>
              LET l == lc'[t]
                  x == SlotValue(mem', lc[t].p)
              IN /\ x # 0
                 /\ x \in l.persisted
                 /\ (lc[t].q # 0 /\ lc[t].prefix_size < Len(lc[t].key)) =>
                        /\ x = l.intermediate_node_ptr
                        /\ l.new_leaf_ptr \in l.persisted
                 /\ Root \in ConstructorPersisted]_vars

\* A put has published, at a retry, an intermediate node that links the leaf
\* it had allocated for an earlier attempt.
C16_Witness ==
    \E t \in Threads :
        /\ PutDone(t)
        /\ lc[t].intermediate_node_ptr # 0
        /\ lc[t].new_leaf_ptr # 0
        /\ lc[t].new_leaf_ptr < lc[t].intermediate_node_ptr
        /\ lc[t].prefix_size < Len(lc[t].key)
        /\ SlotValue(mem, lc[t].p) = lc[t].intermediate_node_ptr
        /\ mem[lc[t].intermediate_node_ptr].child[lc[t].key[lc[t].prefix_size + 1]]
               = lc[t].new_leaf_ptr

\* C17 (lock-free progress): under a fair scheduler every call of put
\* (update == false racing a writer on an invalid value slot included) and
\* every call of destroy or get that has started eventually returns.
C17_EveryCallReturns ==
    \A t \in Threads : [](Running(t) => <>(~Running(t)))

\* The keys that hold a valid value in the tree m.
ValidKeys(m) == {k \in ScanKeys : IsValid(Get(m, k, 0))}

\* The keys yielded since the last call of scan.
YieldedKeys == {yielded[i][1] : i \in 1 .. Len(yielded)}

\* The yielded keys ascend (so each comes once), each with its current value.
YieldedInOrder ==
    /\ \A i \in 1 .. Len(yielded) - 1 : StrLess(yielded[i][1], yielded[i + 1][1])
    /\ \A i \in 1 .. Len(yielded) : yielded[i][2] = Get(mem, yielded[i][1], 0)

\* The caller asked for a scan with both bounds open.
BothOpen ==
    /\ scanret # "none"
    /\ iter.begin_key = OPEN_BOUNDARY_KEY /\ ~iter.begin_key_inclusive
    /\ iter.end_key = OPEN_BOUNDARY_KEY /\ ~iter.end_key_inclusive

\* C18 (scan ordering): a scan with both bounds open followed by get_next
\* until not_found has yielded exactly the keys with a valid value, each once,
\* in ascending unsigned-byte order, each with its current tagged value.
C18_ScanOrdering ==
    BothOpen =>
        /\ scanret # "crash"
        /\ scanret = "not_found" =>
              /\ YieldedKeys = ValidKeys(mem)
              /\ YieldedInOrder

\* The bounds the caller asked for: a bound is open when it is the open
\* boundary key with an exclusive flag.
AskedBeginOpen == iter.begin_key = OPEN_BOUNDARY_KEY /\ ~iter.begin_key_inclusive
AskedEndOpen == iter.end_key = OPEN_BOUNDARY_KEY /\ ~iter.end_key_inclusive

AboveBegin(k) ==
    \/ AskedBeginOpen
    \/ StrLess(iter.begin_key, k)
    \/ iter.begin_key_inclusive /\ k = iter.begin_key

BelowEnd(k) ==
    \/ AskedEndOpen
    \/ StrLess(k, iter.end_key)
    \/ iter.end_key_inclusive /\ k = iter.end_key

\* Each bound is open or a key a caller can store.
ProperBounds ==
    /\ scanret # "none"
    /\ AskedBeginOpen \/ iter.begin_key # OPEN_BOUNDARY_KEY
    /\ AskedEndOpen \/ iter.end_key # OPEN_BOUNDARY_KEY

\* C19 (scan bounds): every key yielded by scan or get_next lies within the
\* bounds the caller gave, strictly on each side whose flag is exclusive.
C19_ScanBounds ==
    ProperBounds =>
        /\ scanret # "crash"
        /\ \A k \in YieldedKeys : AboveBegin(k) /\ BelowEnd(k)

\* The caller gave two keys with begin < end.
BoundedScan ==
    /\ scanret # "none"
    /\ iter.begin_key # OPEN_BOUNDARY_KEY
    /\ iter.end_key # OPEN_BOUNDARY_KEY
    /\ StrLess(iter.begin_key, iter.end_key)

\* The keys with a valid value within the bounds the caller gave.
KeysInBounds == {k \in ValidKeys(mem) : AboveBegin(k) /\ BelowEnd(k)}

\* C20 (bounded-scan completeness): with begin < end, scan followed by
\* get_next until not_found has yielded every key with a valid value within
\* the bounds, ascending, each once; the first key yielded is the smallest of
\* them.
C20_BoundedScanComplete ==
    BoundedScan =>
        /\ scanret # "crash"
        /\ scanret = "not_found" =>
              /\ YieldedKeys = KeysInBounds
              /\ YieldedInOrder
        /\ yielded # <<>> =>
              /\ yielded[1][1] \in KeysInBounds
              /\ \A k \in KeysInBounds : ~StrLess(k, yielded[1][1])

\* The caller asked for a point query: begin == end, both flags inclusive.
PointQuery ==
    /\ scanret # "none"
    /\ iter.begin_key = iter.end_key
    /\ iter.begin_key_inclusive /\ iter.end_key_inclusive

\* C21 (point-query fast path): a scan with begin == end and both flags
\* inclusive hands back (k, get(k)) when get(k) is valid and not_found
\* otherwise; the calls of get_next that follow yield nothing more.
C21_PointQuery ==
    PointQuery =>
        LET k == iter.begin_key
            val == Get(mem, k, 0)
        IN /\ scanret \in {"found", "not_found"}
           /\ IsValid(val) => yielded = <<<<k, val>>>>
           /\ ~IsValid(val) => yielded = <<>> /\ scanret = "not_found"

\* A point query found its key, and a get_next after it returned not_found.
C21_Witness ==
    /\ PointQuery
    /\ iter.begin_key \in ScanKeys
    /\ yielded # <<>>
    /\ scanret = "not_found"

\* C22 (open boundary): after scan the begin bound is treated as open exactly
\* when begin is the open boundary key with an exclusive flag, and likewise
\* the end bound.
C22_OpenBoundary ==
    scanret # "none" =>
        /\ iter.begin_key_open = AskedBeginOpen
        /\ iter.end_key_open = AskedEndOpen

\* The pairs get_next yields after the call that handed back r, until
\* not_found.
RECURSIVE GetNextAll(_, _, _, _, _)
GetNextAll(m, r, oob, oq, fuel) ==
    IF r.ret # "found" \/ fuel = 0 THEN <<>>
    ELSE LET r2 == get_next(m, r.it, oob, oq)
         IN r2.out \o GetNextAll(m, r2, oob, oq, fuel - 1)

\* Everything scan and the calls of get_next after it yield on the tree m,
\* with the iterator it and the bounds and flags of the iterator a.
ScanAll(m, it, a, oob, oq) ==
    LET r == Scan(m, it, a.begin_key, a.begin_key_inclusive, a.end_key,
                  a.end_key_inclusive, oob, oq)
    IN r.out \o GetNextAll(m, r, oob, oq, NumBlocks)

IsPrefix(s, t) == Len(s) <= Len(t) /\ SubSeq(t, 1, Len(s)) = s

\* C23 (scan resets the iterator): what scan and the calls of get_next after
\* it yield is what they yield with a fresh iterator on the same tree with
\* the same bounds and flags, whatever the iterator was used for before.
C23_ScanResets ==
    scanret # "none" =>
        \E oob \in Bytes, oq \in {0, 1} :
            LET fresh == ScanAll(mem, NewIter, iter, oob, oq)
            IN /\ IsPrefix(yielded, fresh)
               /\ scanret = "not_found" => yielded = fresh

\* C24 (scan under concurrent writers): a pair (k, v) that scan or get_next
\* yields while puts run is a pair get(k) returns at the instant of the yield,
\* and k was passed to put before.
C24_ScanYieldsStoredPairs ==
    [][yielded' # yielded =>
          \A i \in 1 .. Len(yielded') :
              (i > Len(yielded) \/ yielded'[i] # yielded[i]) =>
                  /\ yielded'[i][1] \in everPut
                  /\ yielded'[i][2] \in GetSet(mem, yielded'[i][1])]_vars

\* ------------------------------------------------------------- putC, getC, destroyC
\* The TagGptr the caller passes by reference as old_value: a fresh one, or
\* the variable its previous call filled.
CallerOld(t) == {Invalid, lc[t].old_value}

\* RadixTree::putC(key, key_size, value, old_value).
CallPutC(t, K, B) ==
    /\ Ready(t)
    /\ nops[t] < B
    /\ \E k \in K, v \in Values, old \in CallerOld(t) :
          /\ lc' = [lc EXCEPT ![t] =
                      [Idle EXCEPT !.pc = "descend", !.op = "put", !.key = k,
                                   !.value = v, !.update = TRUE, !.q = Root,
                                   !.cc = TRUE, !.old_value = old,
                                   !.g0 = GetSet(mem, k)]]
          /\ everPut' = everPut \cup {k}
    /\ nops' = [nops EXCEPT ![t] = @ + 1]
    /\ UNCHANGED <<mem, heap>>
    /\ Tracked
    /\ UNCHANGED <<scanVars, dataVars>>

\* RadixTree::getC(key, key_size).
CallGetC(t, K, B) ==
    /\ Ready(t)
    /\ nops[t] < B
    /\ \E k \in K :
          lc' = [lc EXCEPT ![t] =
                    [GetStart(k) EXCEPT !.cc = TRUE,
                                        !.old_value = lc[t].old_value]]
    /\ nops' = [nops EXCEPT ![t] = @ + 1]
    /\ UNCHANGED <<mem, heap, everPut>>
    /\ Tracked
    /\ UNCHANGED <<scanVars, dataVars>>

\* RadixTree::destroyC(key, key_size, old_value).
CallDestroyC(t, K, B) ==
    /\ Ready(t)
    /\ nops[t] < B
    /\ \E k \in K, old \in CallerOld(t) :
          lc' = [lc EXCEPT ![t] =
                    [Idle EXCEPT !.pc = "descend", !.op = "destroy", !.key = k,
                                 !.q = Root, !.cc = TRUE, !.old_value = old,
                                 !.g0 = GetSet(mem, k)]]
    /\ nops' = [nops EXCEPT ![t] = @ + 1]
    /\ UNCHANGED <<mem, heap, everPut>>
    /\ Tracked
    /\ UNCHANGED <<scanVars, dataVars>>

\* One thread calling putC, getC and destroyC, and put and destroy, one after
\* the other.
SeqPutC == CallPutC(SeqThread, Keys, MaxSeqOps) /\ UNCHANGED expect
SeqGetC == CallGetC(SeqThread, Keys, MaxSeqOps) /\ UNCHANGED expect
SeqDestroyC == CallDestroyC(SeqThread, Keys, MaxSeqOps) /\ UNCHANGED expect

NextSeqC ==
    \/ SeqPutC
    \/ SeqGetC
    \/ SeqDestroyC
    \/ SeqPut
    \/ SeqDestroy
    \/ Steps(SeqThread)

SeqSpecC == Init /\ [][NextSeqC]_vars

\* The call of thread t that has returned is the C variant of op.
DoneC(t, op) == lc[t].pc = "done" /\ lc[t].cc /\ lc[t].op = op

\* The pair a C variant returned names the node of its key and the tagged
\* value that node holds.
ReturnsNodeOf(l) ==
    /\ NodeKey(mem[l.first]) = l.key
    /\ mem[l.first].value = l.second
    /\ l.first \in Reachable(mem)

\* putC against put with update set: old is what put returns (the tagged value
\* the key had, invalid when it had none), and get finds the returned value.
MirrorsPut(l) ==
    /\ l.old_value \in l.g0
    /\ l.first # 0
    /\ ReturnsNodeOf(l)
    /\ l.second.gptr = l.value
    /\ GetSet(mem, l.key) = {l.second}

\* getC against get.
MirrorsGet(l) ==
    /\ l.second \in GetSet(mem, l.key)
    /\ l.first # 0 => ReturnsNodeOf(l)

\* destroyC against destroy: old is what destroy returns, the key is gone.
MirrorsDestroy(l) ==
    /\ l.old_value \in l.g0
    /\ l.first # 0 => ReturnsNodeOf(l) /\ ~IsValid(l.second)
    /\ \A r \in GetSet(mem, l.key) : ~IsValid(r)

\* C25 (cache-coherent variants mirror the plain operations): when putC,
\* getC or destroyC has returned, old holds what put with update set, or
\* destroy, returns from the tree the call started on, getC's second component
\* is what get returns, and a non-null first component is the node whose
\* prefix is the key, holding the returned tagged value.
C25_CVariantsMirror ==
    \A t \in Threads :
        /\ DoneC(t, "put") => MirrorsPut(lc[t])
        /\ DoneC(t, "get") => MirrorsGet(lc[t])
        /\ DoneC(t, "destroy") => MirrorsDestroy(lc[t])

\* The putC and getC parts alone.
C25_PutCGetC ==
    \A t \in Threads :
        /\ DoneC(t, "put") => MirrorsPut(lc[t])
        /\ DoneC(t, "get") => MirrorsGet(lc[t])

\* A caller of putC, getC and destroyC that keeps the node pointer it was
\* given: when thread t makes its next call, the non-null pointer its last C
\* call returned for a key is noted in expect (-1: none yet).
KeepHandle(t) ==
    expect' = IF lc[t].pc = "done" /\ lc[t].cc /\ lc[t].first # 0
              THEN [expect EXCEPT ![lc[t].key] = lc[t].first]
              ELSE expect

\* One thread using putC, getC and destroyC on a key while the other calls put
\* with update == false and getC on it.
HandlePutC == CallPutC(Writer, RaceKey, WriterOps) /\ KeepHandle(Writer)
HandleDestroyC == CallDestroyC(Writer, RaceKey, WriterOps) /\ KeepHandle(Writer)
HandleGetC == CallGetC(Racer, RaceKey, RacerOps) /\ KeepHandle(Racer)
HandlePut == CallPut(Racer, RaceKey, {FALSE}, RacerOps) /\ KeepHandle(Racer)

NextHandle ==
    \/ HandlePutC
    \/ HandleDestroyC
    \/ HandleGetC
    \/ HandlePut
    \/ \E t \in Threads : Steps(t)

SpecHandle == Init /\ [][NextHandle]_vars

\* C26 (stable leaf handle): a non-null node pointer that putC, getC or
\* destroyC returns for a key is the pointer every earlier such call returned
\* for that key.
C26_StableHandle ==
    \A t \in Threads :
        (lc[t].pc = "done" /\ lc[t].cc /\ lc[t].first # 0) =>
            expect[lc[t].key] \in {0 - 1, lc[t].first}

\* ------------------------------------------------------------- the Gptr overloads
\* getC(k) run to completion on the tree m: the pair it returns.
RECURSIVE GetCRun(_, _, _, _)
GetCRun(m, l, oob, fuel) ==
    IF l.pc = "done" \/ fuel = 0 THEN l
    ELSE GetCRun(m, GetStep(m, l, oob), oob, fuel - 1)

GetC(m, k, oob) ==
    LET l == GetCRun(m, [GetStart(k) EXCEPT !.cc = TRUE], oob, NumBlocks + 1)
    IN [first |-> l.first, second |-> l.second]

\* The non-null handles getC(k).first gives on the tree m.
HandlesOf(m, k) == {GetC(m, k, oob).first : oob \in Bytes} \ {0}

\* RadixTree::putC(key_ptr, value, old_value) up to its first casTagGptr:
\* q = key_ptr, tq loaded from q's value slot.  key is kept for the properties.
CallPutCPtr(t, K, B) ==
    /\ Ready(t)
    /\ nops[t] < B
    /\ \E k \in K, v \in Values, old \in CallerOld(t) :
          \E g \in HandlesOf(mem, k) :
             lc' = [lc EXCEPT ![t] =
                      [Idle EXCEPT !.pc = "cas_value", !.op = "put", !.key = k,
                                   !.value = v, !.update = TRUE, !.q = g,
                                   !.key_ptr = g, !.tq = mem[g].value,
                                   !.cc = TRUE, !.old_value = old,
                                   !.g0 = {mem[g].value}]]
    /\ nops' = [nops EXCEPT ![t] = @ + 1]
    /\ UNCHANGED <<mem, heap, everPut>>
    /\ Tracked
    /\ UNCHANGED <<scanVars, dataVars>>

\* RadixTree::getC(key_ptr): the load of the value slot.
CallGetCPtr(t, K, B) ==
    /\ Ready(t)
    /\ nops[t] < B
    /\ \E k \in K :
          \E g \in HandlesOf(mem, k) :
             lc' = [lc EXCEPT ![t] =
                      [Idle EXCEPT !.pc = "done", !.op = "get", !.key = k,
                                   !.q = g, !.key_ptr = g, !.cc = TRUE,
                                   !.old_value = lc[t].old_value,
                                   !.first = g, !.second = mem[g].value,
                                   !.ret = mem[g].value,
                                   !.g0 = {mem[g].value}]]
    /\ nops' = [nops EXCEPT ![t] = @ + 1]
    /\ UNCHANGED <<mem, heap, everPut>>
    /\ Tracked
    /\ UNCHANGED <<scanVars, dataVars>>

\* RadixTree::destroyC(key_ptr, old_value) up to its first casTagGptr.
CallDestroyCPtr(t, K, B) ==
    /\ Ready(t)
    /\ nops[t] < B
    /\ \E k \in K, old \in CallerOld(t) :
          \E g \in HandlesOf(mem, k) :
             lc' = [lc EXCEPT ![t] =
                      [Idle EXCEPT !.pc = "cas_value", !.op = "destroy",
                                   !.key = k, !.q = g, !.key_ptr = g,
                                   !.tq = mem[g].value, !.cc = TRUE,
                                   !.old_value = old,
                                   !.g0 = {mem[g].value}]]
    /\ nops' = [nops EXCEPT ![t] = @ + 1]
    /\ UNCHANGED <<mem, heap, everPut>>
    /\ Tracked
    /\ UNCHANGED <<scanVars, dataVars>>

\* One thread that builds a tree with putC and destroyC and uses the handles
\* getC gives.
SeqPutCPtr == CallPutCPtr(SeqThread, Keys, MaxSeqOps) /\ UNCHANGED expect
SeqGetCPtr == CallGetCPtr(SeqThread, Keys, MaxSeqOps) /\ UNCHANGED expect
SeqDestroyCPtr == CallDestroyCPtr(SeqThread, Keys, MaxSeqOps) /\ UNCHANGED expect

NextSeqPtr ==
    \/ SeqPutC
    \/ SeqDestroyC
    \/ SeqPutCPtr
    \/ SeqGetCPtr
    \/ SeqDestroyCPtr
    \/ PutDescend(SeqThread)
    \/ PutInsert(SeqThread)
    \/ PutCasValue(SeqThread)
    \/ DestroyDescend(SeqThread)
    \/ DestroyCas(SeqThread)

SeqSpecPtr == Init /\ [][NextSeqPtr]_vars

\* What a returned Gptr overload, whose record is l, has left in the tree m:
\* xt is the tagged value (x, t) the slot of key_ptr held.
PtrResult(l, m) ==
    \E xt \in l.g0 :
        LET after == TagGptr(IF l.op = "put" THEN l.value ELSE 0, xt.tag + 1)
        IN IF l.op = "get"
           THEN /\ l.second = xt
                /\ GetSet(m, l.key) = {l.second}
           ELSE /\ m[l.key_ptr].value = after
                /\ l.old_value = xt
                /\ l.second = after
                /\ GetSet(m, l.key) = {after}

\* C27 (handle overloads): with g = getC(k).first non-null, no step of
\* putC(g, v, old), getC(g) or destroyC(g, old) changes a child slot, and when
\* the call returns the value slot of g, which held (x, t), holds (v, t + 1)
\* after putC and (0, t + 1) after destroyC, old is (x, t), the call returned
\* the new slot content (getC(g): the content), and get(k) returns it too.
C27_HandleOverloads ==
    [][\A t \in Threads :
          (lc'[t] # lc[t] /\ lc'[t].key_ptr # 0) =>
             /\ \A b \in Blocks : mem'[b].child = mem[b].child
             /\ lc'[t].pc = "done" => PtrResult(lc'[t], mem')]_vars

C27_Witness ==
    \E t \in Threads :
        /\ lc[t].pc = "done"
        /\ lc[t].key_ptr # 0
        /\ lc[t].op = "put"
        /\ IsValid(lc[t].old_value)
        /\ lc[t].old_value.gptr # lc[t].value
        /\ mem[lc[t].key_ptr].value = lc[t].second
        /\ \E b \in Bytes : mem[lc[t].key_ptr].child[b] # 0

\* ------------------------------------------------------------- constructor, get_root
\* Faulty variant: the constructor leaves the value slot of the block as it is.
NewRoot_KeepsValue(blk) ==
    [blk EXCEPT !.prefix_size = 0, !.child = [b \in Bytes |-> 0]]

\* The root node as the constructor fills it in; key is not written.
NewRoot(blk) ==
    [blk EXCEPT !.prefix_size = 0, !.child = [b \in Bytes |-> 0],
                !.value = Invalid]

\* RadixTree::RadixTree(Mmgr, Heap, Metrics, Root) on the memory m and the
\* heap h: every outcome, as the memory, the heap and the member root.
Construct(m, h, root) ==
    IF root = 0
    THEN {[mem |-> [m EXCEPT ![b] = NewRoot(m[b])],
           heap |-> [h EXCEPT ![b] = "used"],
           root |-> b] : b \in AllocChoices(h)}
    ELSE {[mem |-> m, heap |-> h, root |-> root]}

\* RadixTree::get_root() of the tree the specifications run on.
get_root == Root

\* A root as the constructor makes it.
FreshRoot(n) ==
    /\ n.prefix_size = 0
    /\ \A b \in Bytes : n.child[b] = 0
    /\ n.value = Invalid

\* C28 (root invariant): the tree the calls run on is the one the constructor
\* builds with root == 0 on an unused heap; constructing with root == 0, also
\* on a heap whose blocks have been used, gives a root with prefix_size 0, null
\* child slots and an invalid value; constructing with the root of the tree
\* changes nothing; and whatever calls have run, the root is not freed, its
\* prefix_size is 0 and its value is invalid.
C28_RootInvariant ==
    /\ \A r \in Construct(mem, heap, 0) : FreshRoot(r.mem[r.root])
    /\ Construct(mem, heap, get_root) =
          {[mem |-> mem, heap |-> heap, root |-> get_root]}
    /\ heap[get_root] = "used"
    /\ mem[get_root].prefix_size = 0
    /\ mem[get_root].value = Invalid
    /\ get_root \in {r.root : r \in Construct([b \in Blocks |-> ZeroNode],
                                               [b \in Blocks |-> "fresh"], 0)}

C28_Witness ==
    /\ Quiescent
    /\ \E b \in Bytes : mem[get_root].child[b] # 0
    /\ \E t \in Threads : DestroyDone(t) /\ IsValid(lc[t].ret)
    /\ \E b \in Blocks : heap[b] = "free" /\ IsValid(mem[b].value)

\* ------------------------------------------------------------- allocation failure
\* put called while the heap can run out: Alloc may return 0.
CallPutNoMem(t, K, B) ==
    /\ Ready(t)
    /\ nops[t] < B
    /\ \E k \in K, v \in Values :
          /\ lc' = [lc EXCEPT ![t] =
                      [Idle EXCEPT !.pc = "descend", !.op = "put", !.key = k,
                                   !.value = v, !.update = TRUE, !.q = Root,
                                   !.nomem = TRUE, !.g0 = GetSet(mem, k)]]
          /\ everPut' = everPut \cup {k}
    /\ nops' = [nops EXCEPT ![t] = @ + 1]
    /\ UNCHANGED <<mem, heap>>
    /\ Tracked
    /\ UNCHANGED <<scanVars, dataVars>>

NoMemPut == CallPutNoMem(SeqThread, Keys, MaxSeqOps) /\ UNCHANGED expect

NextNoMem ==
    \/ NoMemPut
    \/ PutDescend(SeqThread)
    \/ PutCasValue(SeqThread)
    \/ PutInsert(SeqThread)

SpecNoMem == Init /\ [][NextNoMem]_vars

\* The step from l to l2 is an attempt of put one of whose allocation loops
\* ended with a null pointer.
ExhaustedAttempt(l, l2) ==
    /\ l.pc = "insert"
    /\ l2 # l
    /\ AllocFailed(l, l2.intermediate_node_ptr, l2.new_leaf_ptr)

PublishesSplit(t) == Publishes(t) /\ lc[t].q # 0

\* C30 (split node contents): when a cas64 of put publishes an intermediate
\* node for a split of node N at position i, that node has prefix_size i, its
\* child slot N.key[i] holds N, its child slot key[i] holds the put's new leaf,
\* whose prefix is the whole key, when i < |key|, and every other child slot is
\* null, whether or not an earlier attempt of the put had filled the node.
C30_SplitNodeContents ==
    [][\A t \in Threads :
          PublishesSplit(t) =>
             LET l == lc[t]
                 i == l.prefix_size
                 N == l.q
                 inter == mem'[SlotValue(mem', l.p)]
                 leaf == lc'[t].new_leaf_ptr
                 linked == {mem[N].key[i + 1]} \cup
                           (IF i < Len(l.key) THEN {l.key[i + 1]} ELSE {})
             IN /\ inter.prefix_size = i
                /\ inter.child[mem[N].key[i + 1]] = N
                /\ i < Len(l.key) =>
                      /\ inter.child[l.key[i + 1]] = leaf
                      /\ leaf # 0
                      /\ NodeKey(mem'[leaf]) = l.key
                /\ \A b \in Bytes \ linked : inter.child[b] = 0]_vars

\* The step of thread t is the casTagGptr of put with update == false, and it
\* lost: another writer had changed the value slot.
LosesCasInvalid(t) ==
    /\ lc[t].pc = "cas_invalid"
    /\ lc'[t] # lc[t]
    /\ mem[lc[t].q].value # lc[t].tq

\* A put with update == false is past its descent at the node of its key.
AtOwnNode(t) ==
    /\ lc[t].op = "put"
    /\ ~lc[t].update
    /\ lc[t].pc = "insert"
    /\ lc[t].q # 0
    /\ AtKeyNode(lc[t], mem[lc[t].q])

\* C31 (contended put with update == false): when the single casTagGptr on the
\* invalid value of the key's node loses, the put stays at that node to retry;
\* it allocates no node and changes no child slot, and what it returns is the
\* valid value now in the node or, after a cas of its own, the invalid one it
\* replaced.
C31_ContendedPutRetries ==
    [][\A t \in Threads :
          /\ LosesCasInvalid(t) =>
                /\ lc'[t].pc \in {"descend", "cas_invalid", "done"}
                /\ lc'[t].q = lc[t].q
                /\ mem' = mem
                /\ heap' = heap
          /\ (AtOwnNode(t) /\ lc'[t] # lc[t]) =>
                /\ heap' = heap
                /\ \A b \in Blocks : mem'[b].child = mem[b].child]_vars

\* The non-null scratch pointers put holds in new_leaf_ptr and
\* intermediate_node_ptr.
Scratch(l) == {l.new_leaf_ptr, l.intermediate_node_ptr} \ {0}

\* The step of thread t is the one in which put, at the node of its key, calls
\* heap->Free on its scratch pointers.
FreesScratch(t) ==
    /\ lc[t].op = "put"
    /\ lc[t].pc = "descend"
    /\ lc'[t] # lc[t]
    /\ AtKeyNode(lc[t], mem[lc[t].q])

\* The step of thread t is an attempt of case 1 or case 2 of put.
Attempts(t) ==
    /\ lc[t].op = "put"
    /\ lc[t].pc = "insert"
    /\ lc'[t] # lc[t]

\* The step of thread t is the return of a put.
PutReturns(t) ==
    /\ lc[t].op = "put"
    /\ Running(t)
    /\ lc'[t].pc = "done"

\* C32 (scratch-node accounting): put does not pass a block that is on the
\* free list to heap->Free again, an attempt of put does not write to, link or
\* publish a scratch node that is on the free list, and when a put returns
\* while no other call is running, every node it allocated is reachable from
\* the root or on the free list.
C32_ScratchAccounting ==
    [][\A t \in Threads :
          /\ FreesScratch(t) => \A b \in Scratch(lc[t]) : heap[b] # "free"
          /\ Attempts(t) => \A b \in Scratch(lc[t]) : heap[b] # "free"
          /\ (PutReturns(t) /\ \A u \in Threads \ {t} : Ready(u)) =>
                \A b \in Scratch(lc'[t]) :
                    b \in Reachable(mem') \/ heap'[b] = "free"]_vars

\* Scans whose end key has a byte of the top half of the byte range (a
\* negative char).
HighBounds == { OPEN_BOUNDARY_KEY, <<MaxByte, 1>> }

NextScanHigh ==
    \/ ScanPut
    \/ ScanDestroy
    \/ CallScan(HighBounds)
    \/ CallGetNext
    \/ PutDescend(SeqThread)
    \/ PutCasValue(SeqThread)
    \/ PutInsert(SeqThread)
    \/ DestroyDescend(SeqThread)
    \/ DestroyCas(SeqThread)

SpecScanHigh == Init /\ [][NextScanHigh]_vars

\* The iterator of a scan with end key end that stands at node b, past the
\* node's value.
AtChildren(b, end) ==
    [NewIter EXCEPT !.node = b, !.next_pos = 1, !.end_key = end]

\* One iteration of next_value at node b under the end key end looks at the
\* child slots 0 .. end[prefix_size], goes down to the first that is not null
\* and ends the scan when there is none.
ConsidersChildren(b, end) ==
    LET n == mem[b]
        C == {c \in 0 .. end[n.prefix_size + 1] : n.child[c] # 0}
    IN \A oob \in Bytes, oq \in {0, 1} :
          LET r == NextValueIter(mem, AtChildren(b, end), oob, oq)
          IN IF C = {}
             THEN r.done = "false" /\ r.it.node = 0
             ELSE /\ r.done = "go"
                  /\ r.it.node = n.child[CHOOSE c \in C : \A d \in C : c <= d]

\* C33 (iterator position range): next_pos of the iterator is in 0 .. 257, no
\* scan runs behind the child array, and at every node whose key is a strict
\* prefix of the end key of the scan next_value considers the children at the
\* bytes 0 through end[prefix_size], the byte taken as unsigned.
C33_IteratorPositions ==
    /\ iter.next_pos \in 0 .. GoUp
    /\ scanret # "crash"
    /\ (scanret # "none" /\ ~iter.end_key_open) =>
          \A b \in Reachable(mem) :
             (/\ mem[b].prefix_size < Len(iter.end_key)
              /\ SubSeq(iter.end_key, 1, mem[b].prefix_size) = NodeKey(mem[b]))
             => ConsidersChildren(b, iter.end_key)

\* The index at which the next step of the get or destroy (getC, destroyC) of
\* thread t reads its key: "key[n->prefix_size]" when the node's key agrees
\* with the key and the node is not the key's; -1 when it reads none.
KeyIndexRead(t) ==
    LET l == lc[t]
        n == mem[l.q]
    IN IF /\ l.pc = "descend"
          /\ l.op \in {"get", "destroy"}
          /\ MemcmpEq(l.key, n)
          /\ n.prefix_size # Len(l.key)
       THEN n.prefix_size
       ELSE 0 - 1

\* C34 (key reads stay in bounds): get, destroy, getC and destroyC read their
\* key only at indexes below its length.
C34_KeyReadsInBounds ==
    \A t \in Threads : KeyIndexRead(t) < Len(lc[t].key) \/ KeyIndexRead(t) < 0

\* The caller gave two bounds, neither of them open, with no key between them.
EmptyRange ==
    /\ scanret # "none"
    /\ ~AskedBeginOpen
    /\ ~AskedEndOpen
    /\ \/ StrLess(iter.end_key, iter.begin_key)
       \/ /\ iter.begin_key = iter.end_key
          /\ ~(iter.begin_key_inclusive /\ iter.end_key_inclusive)

\* C35 (empty range): after a scan whose bounds, neither open, have begin > end
\* or begin == end with a flag exclusive, scan and every get_next that followed
\* it have returned not_found and yielded no key.
C35_EmptyRange == EmptyRange => scanret = "not_found" /\ yielded = <<>>

C35_Witness ==
    /\ EmptyRange
    /\ scanret = "not_found"
    /\ StrLess(iter.end_key, iter.begin_key)
    /\ \E k \in ValidKeys(mem) : ~StrLess(k, iter.end_key)

\* C36 (exhaustion is sticky): when the last call of scan or get_next on the
\* iterator has returned not_found, a call of get_next returns not_found and
\* yields no key.
C36_ExhaustionSticky ==
    scanret = "not_found" =>
        \A oob \in Bytes, oq \in {0, 1} :
            LET r == get_next(mem, iter, oob, oq)
            IN r.ret = "not_found" /\ r.out = <<>>

C36_Witness ==
    /\ scanret = "not_found"
    /\ Len(yielded) >= 2
    /\ iter.begin_key # iter.end_key
    /\ iter.node # 0

\* ------------------------------------------------------------- list, structure
\* What list has done so far: the calls of f in order, each as <<key,
\* prefix_size, value gptr>>, the three counters, and ok, FALSE when the
\* recursion does not end.
NoCalls == [calls |-> <<>>, depth |-> 0, value_cnt |-> 0, node_cnt |-> 0,
            ok |-> TRUE]

Max(a, b) == IF a >= b THEN a ELSE b

\* RadixTree::recursive_list(parent, f, level, depth, value_cnt, node_cnt) on
\* the tree m; ChildrenList is its loop over child[i .. 255].
RECURSIVE recursive_list(_, _, _, _, _)
RECURSIVE ChildrenList(_, _, _, _, _, _)
recursive_list(m, parent, level, acc, fuel) ==
    IF parent = 0 \/ ~acc.ok THEN acc
    ELSE IF fuel = 0 THEN [acc EXCEPT !.ok = FALSE]
    ELSE LET n == m[parent]
             seen == IF IsValid(n.value)
                     THEN [acc EXCEPT
                             !.value_cnt = @ + 1,
                             !.calls = Append(@, <<NodeKey(n), n.prefix_size,
                                                   n.value.gptr>>)]
                     ELSE acc
             counted == [seen EXCEPT !.node_cnt = @ + 1,
                                     !.depth = Max(level, @)]
         IN ChildrenList(m, n, 0, level + 1, counted, fuel - 1)

ChildrenList(m, n, i, level, acc, fuel) ==
    IF i > MaxByte THEN acc
    ELSE ChildrenList(m, n, i + 1, level,
                      recursive_list(m, n.child[i], level, acc, fuel), fuel)

\* RadixTree::list(f): the calls of f and the numbers printed.
list(m) == recursive_list(m, Root, 0, NoCalls, NumBlocks + 1)

\* The nodes at level l of the tree m (the root is level 0).
RECURSIVE NodesAtLevel(_, _)
NodesAtLevel(m, l) ==
    IF l = 0 THEN {Root}
    ELSE {m[b].child[c] : b \in NodesAtLevel(m, l - 1), c \in Bytes} \ {0}

\* The deepest level that has a node; NumBlocks + 1 when the levels never end.
MaxDepth(m) ==
    LET L == {l \in 0 .. NumBlocks + 1 : NodesAtLevel(m, l) # {}}
    IN CHOOSE l \in L : \A k \in L : k <= l

\* The reachable nodes of m that hold a valid value.
ValueNodes(m) == {b \in Reachable(m) : IsValid(m[b].value)}

\* C37 (list): on a tree no call is working on, list calls f once for each
\* key with a valid value, with the node's key, prefix_size and value gptr, and
\* for no other node, and the numbers it prints are the number of valid
\* values, the number of reachable nodes and the depth of the deepest node.
C37_List ==
    Quiescent =>
        LET r == list(mem)
            V == ValueNodes(mem)
        IN /\ r.ok
           /\ Len(r.calls) = Cardinality(V)
           /\ {r.calls[i] : i \in 1 .. Len(r.calls)} =
                 {<<NodeKey(mem[b]), mem[b].prefix_size, mem[b].value.gptr>> :
                     b \in V}
           /\ \A i, j \in 1 .. Len(r.calls) :
                 r.calls[i][1] = r.calls[j][1] => i = j
           /\ r.value_cnt = Cardinality(V)
           /\ r.node_cnt = Cardinality(Reachable(mem))
           /\ r.depth = MaxDepth(mem)

\* The levels a TreeStructure has lists for (nodes_at_level.resize); the model
\* keeps one list more than the deepest level a walk can reach.
StructureLevels == 0 .. NumBlocks + 1

\* TreeStructure::TreeStructure().
NewStructure == [depth |-> 0, value_cnt |-> 0, node_cnt |-> 0,
                 nodes_at_level |-> [l \in StructureLevels |-> <<>>],
                 ok |-> TRUE]

\* RadixTree::recursive_structure(parent, level, structure) on the tree m;
\* ChildrenStructure is its loop over child[i .. 255].
RECURSIVE recursive_structure(_, _, _, _, _)
RECURSIVE ChildrenStructure(_, _, _, _, _, _)
recursive_structure(m, parent, level, st, fuel) ==
    IF parent = 0 \/ ~st.ok THEN st
    ELSE IF fuel = 0 THEN [st EXCEPT !.ok = FALSE]
    ELSE LET added == [st EXCEPT
                         !.nodes_at_level[level] = Append(@, parent),
                         !.node_cnt = @ + 1,
                         !.depth = Max(level, @)]
         IN ChildrenStructure(m, m[parent], 0, level + 1, added, fuel - 1)

ChildrenStructure(m, n, i, level, st, fuel) ==
    IF i > MaxByte THEN st
    ELSE ChildrenStructure(m, n, i + 1, level,
                           recursive_structure(m, n.child[i], level, st, fuel),
                           fuel)

\* The number of nodes of the list nodes with a valid value in m.
RECURSIVE CountValid(_, _)
CountValid(m, nodes) ==
    IF nodes = <<>> THEN 0
    ELSE (IF IsValid(m[Head(nodes)].value) THEN 1 ELSE 0)
         + CountValid(m, Tail(nodes))

\* TreeStructure::Report(out): the three totals, and for each level the loop
\* reaches the pair of numbers printed under "Level l".
Report(m, st) ==
    [depth |-> st.depth, values |-> st.value_cnt, nodes |-> st.node_cnt,
     levels |-> [l \in {k \in StructureLevels : k < st.depth} |->
                   [nodes |-> Len(st.nodes_at_level[l]),
                    values |-> CountValid(m, st.nodes_at_level[l])]],
     ok |-> st.ok]

\* RadixTree::structure(): what it prints for the tree m.
structure(m) ==
    Report(m, recursive_structure(m, Root, 0, NewStructure, NumBlocks + 1))

\* C38 (structure): on a tree no call is working on, structure reports the
\* number of reachable nodes, the number of valid values, the depth, and for
\* every level from the root's to the deepest one the number of nodes and the
\* number of valid values at that level.
C38_Structure ==
    Quiescent =>
        LET r == structure(mem)
        IN /\ r.ok
           /\ r.nodes = Cardinality(Reachable(mem))
           /\ r.values = Cardinality(ValueNodes(mem))
           /\ r.depth = MaxDepth(mem)
           /\ \A l \in 0 .. MaxDepth(mem) :
                 /\ l \in DOMAIN r.levels
                 /\ r.levels[l].nodes = Cardinality(NodesAtLevel(mem, l))
                 /\ r.levels[l].values =
                       Cardinality(NodesAtLevel(mem, l) \cap ValueNodes(mem))

\* The totals of nodes and of the depth alone, which structure does report on
\* a tree built by one thread.
C38_NodesAndDepth ==
    Quiescent =>
        LET r == structure(mem)
        IN /\ r.ok
           /\ r.nodes = Cardinality(Reachable(mem))
           /\ r.depth = MaxDepth(mem)
           /\ \A l \in DOMAIN r.levels :
                 /\ r.levels[l].nodes = Cardinality(NodesAtLevel(mem, l))
                 /\ r.levels[l].values =
                       Cardinality(NodesAtLevel(mem, l) \cap ValueNodes(mem))

\* ------------------------------------------------- Fam_Ops_NVMM data path
\* The permission bits of a descriptor key (their header is not part of the
\* sources at hand; two distinct bits).
FAM_READ_KEY_SHM == 1
FAM_WRITE_KEY_SHM == 2
DescriptorKeys == 0 .. 3

\* The number of data-path calls explored.
MaxDataOps == 2

\* a & b on unsigned integers.
RECURSIVE BitAnd(_, _)
BitAnd(a, b) ==
    IF a = 0 \/ b = 0 THEN 0
    ELSE (a % 2) * (b % 2) + 2 * BitAnd(a \div 2, b \div 2)

\* The addresses [base, base + size) of the data item of descriptor d.
Item(d) == {a \in Addresses : d.base <= a /\ a < d.base + d.size}

\* The test "(offset > size) || ((offset + nbytes) > size)" on uint64_t.
OutOfRange(size, offset, nbytes) ==
    offset > size \/ (offset + nbytes) % Word64 > size

\* The addresses of the first c bytes from address start.
AddressRange(start, c) == {(start + i) % Word64 : i \in 0 .. c - 1}

\* memcpy of nbytes bytes at address start of the address space: the numbers
\* of bytes it may copy.  A copy that stays inside the data item copies them
\* all; one that leaves it has undefined behaviour, and may fault at any
\* address outside the item or copy all nbytes bytes.
CopyLengths(d, start, nbytes) ==
    {c \in 0 .. nbytes : c = nbytes \/ (start + c) % Word64 \notin Item(d)}

\* What a call that copied c of nbytes bytes did.
Copied(op, c, nbytes) ==
    [op |-> op, code |-> IF c = nbytes THEN "FAM_SUCCESS" ELSE "fault"]

\* A call that threw the exception code before any copy.
Raise(op, code) ==
    /\ famRet' = [op |-> op, code |-> code]
    /\ famCopied' = {}
    /\ famMem' = famMem

\* Fam_Ops_NVMM::put_blocking(local, descriptor, offset, nbytes); the bytes of
\* local are all 1.
put_blocking(offset, nbytes) ==
    LET base == famDesc.base
        size == famDesc.size
        key == famDesc.key
        dest == (base + offset) % Word64
    IN IF OutOfRange(size, offset, nbytes)
       THEN Raise("put", "FAM_ERR_OUTOFRANGE")
       ELSE IF BitAnd(key, FAM_WRITE_KEY_SHM) # FAM_WRITE_KEY_SHM
       THEN Raise("put", "FAM_ERR_NOPERM")
       ELSE \E c \in CopyLengths(famDesc, dest, nbytes) :
               /\ famMem' = [a \in Addresses |->
                               IF a \in AddressRange(dest, c) THEN 1
                               ELSE famMem[a]]
               /\ famCopied' = AddressRange(dest, c)
               /\ famRet' = Copied("put", c, nbytes)

\* Fam_Ops_NVMM::get_blocking(local, descriptor, offset, nbytes).
get_blocking(offset, nbytes) ==
    LET base == famDesc.base
        size == famDesc.size
        key == famDesc.key
        src == (base + offset) % Word64
    IN IF OutOfRange(size, offset, nbytes)
       THEN Raise("get", "FAM_ERR_OUTOFRANGE")
       ELSE IF BitAnd(key, FAM_READ_KEY_SHM) # FAM_READ_KEY_SHM
       THEN Raise("get", "FAM_ERR_NOPERM")
       ELSE \E c \in CopyLengths(famDesc, src, nbytes) :
               /\ famMem' = famMem
               /\ famCopied' = AddressRange(src, c)
               /\ famRet' = Copied("get", c, nbytes)

\* A data-path call leaves the tree, the iterator and the descriptor alone.
DataCall ==
    /\ famOps < MaxDataOps
    /\ famOps' = famOps + 1
    /\ UNCHANGED <<mem, heap, lc, nops, everPut, expect, pmem, stored>>
    /\ UNCHANGED <<scanVars, famDesc>>

PutBlocking ==
    DataCall /\ \E offset, nbytes \in Addresses : put_blocking(offset, nbytes)

GetBlocking ==
    DataCall /\ \E offset, nbytes \in Addresses : get_blocking(offset, nbytes)

\* A data item somewhere in the address space, with any key.
InitData ==
    /\ TreeState
    /\ pmem = FALSE
    /\ famDesc \in [base : {4, 8}, size : {0, 1, 4}, key : DescriptorKeys]
    /\ famMem = [a \in Addresses |-> 0]
    /\ famRet = [op |-> "none", code |-> "none"]
    /\ famCopied = {}
    /\ famOps = 0

NextData == PutBlocking \/ GetBlocking

SpecData == InitData /\ [][NextData]_vars

\* The key of the descriptor lacks the permission bit the last call needs.
LacksPermission ==
    \/ /\ famRet.op = "put"
       /\ BitAnd(famDesc.key, FAM_WRITE_KEY_SHM) # FAM_WRITE_KEY_SHM
    \/ /\ famRet.op = "get"
       /\ BitAnd(famDesc.key, FAM_READ_KEY_SHM) # FAM_READ_KEY_SHM

\* C39 (data-path bounds and permission): whatever the offset and nbytes,
\* also when their sum wraps, put_blocking and get_blocking raise
\* FAM_ERR_OUTOFRANGE or copy only bytes of the data item, and when the key
\* lacks the permission bit of the call they raise an error and copy nothing.
C39_DataPathBounds ==
    famOps > 0 =>
        /\ \/ famRet.code = "FAM_ERR_OUTOFRANGE"
           \/ famCopied \subseteq Item(famDesc)
        /\ \A a \in Addresses \ Item(famDesc) : famMem[a] = 0
        /\ LacksPermission =>
              /\ famRet.code \in {"FAM_ERR_NOPERM", "FAM_ERR_OUTOFRANGE"}
              /\ famCopied = {}

\* The permission half alone: a call whose key lacks the bit copies nothing.
C39_Permission ==
    (famOps > 0 /\ LacksPermission) =>
        /\ famRet.code \in {"FAM_ERR_NOPERM", "FAM_ERR_OUTOFRANGE"}
        /\ famCopied = {}
====
